---- MODULE Spec2Model ----
(***************************************************************************)
(* State-machine model of the WhatsApp gateway backend:                    *)
(*   - the Evolution provider adapter (src/wa_evolution.py and the raw     *)
(*     HTTP helpers of src/routers/channels.py),                           *)
(*   - the two webhook handlers (src/routers/channels.py wa_webhook and    *)
(*     src/routers/wa_admin.py webhook).                                   *)
(* The provider is the environment: every network call is answered with a  *)
(* nondeterministically chosen status / body shape or a transport error.   *)
(***************************************************************************)
EXTENDS Integers, Sequences, FiniteSets, TLC

VARIABLES
    \* ---- provider adapter ----
    apiKeySet,      \* EVOLUTION_API_KEY is configured (non-empty)
    provExists,     \* provider side: the named instance exists
    top,            \* operation called by the user: "idle", its name, or "done"
    cur,            \* candidate-list operation currently probing ("none")
    cand,           \* index of the endpoint candidate being tried
    hdr,            \* index of the header set being tried inside _request
    reqLast,        \* local `last` of _request
    rs,             \* locals r1, r2, r3 of qr_by_param
    detail,         \* local `detail` of ensure_started / _ensure_started
    webhookUrl,     \* argument webhook_url is non-empty
    result,         \* what the operation returned (or that it raised)
    \* ---- observations of the run (history, not program state) ----
    ncalls,         \* network calls made by the running operation (saturating)
    tried,          \* candidate indices in the order a request was started
    lastNet,        \* outcome of the most recent network call
    firstOk,        \* first candidate whose request came back accepted (0: none)
    scen,           \* progress of the call sequence along 404, 404, 200
    phases,         \* sub-operations of ensure_started that made a network call
    existedAtStart, \* provExists when ensure_started was called
    \* ---- webhook handlers ----
    store,          \* WAMessage table, in insertion order
    sent,           \* outbound send_text calls made by the webhook
    now,            \* int(time.time())
    deliveries,     \* deliveries that wrote to the store so far
    lastReq,        \* the delivery handled last (its messages summarised)
    lastResp,       \* its HTTP response and what it did
    \* ---- admin command interpreter (agents/mc.py) ----
    SUPER_PASS,     \* WA_SUPERADMIN_PASSWORD ("": not set)
    SUPER_NUMS,     \* WA_SUPERADMIN_NUMBERS, as a set
    waConfig,       \* the tenant's WAConfig row, as committed
    dataSources,    \* ids of the tenant's BrandDataSource rows, as committed
    adminCall,      \* the last call of try_admin_command and its outcome
    \* ---- agent endpoints (routers/agent_*.py) ----
    chatMessages,   \* ChatMessage rows of the tenant's thread, in insertion order
    leads,          \* number of Lead rows
    agentCalls,     \* calls of the agent endpoints so far
    agentResp,      \* the last agent endpoint call and its response
    \* ---- chat board (routers/channels.py) ----
    metas,          \* WAChatMeta table, in insertion order (a row's index is its id)
    slots,          \* the chat-meta requests being handled, one per worker thread
    board           \* the last answer of GET /api/wa/board and what it was asked

adapterVars == <<apiKeySet, provExists, top, cur, cand, hdr, reqLast, rs, detail,
                 webhookUrl, result, ncalls, tried, lastNet, firstOk, scen, phases,
                 existedAtStart>>
webhookVars == <<store, sent, now, deliveries, lastReq, lastResp>>
adminVars == <<SUPER_PASS, SUPER_NUMS, waConfig, dataSources, adminCall>>
agentVars == <<chatMessages, leads, agentCalls, agentResp>>
boardVars == <<metas, slots, board>>
vars == <<adapterVars, webhookVars, adminVars, agentVars, boardVars>>

(***************************************************************************)
(* Bounds of the model.                                                    *)
(***************************************************************************)
CallCap == 4        \* ncalls counts up to here and then saturates
MaxDeliveries == 1  \* webhook deliveries that wrote to the store in one behaviour
MaxAgentCalls == 2  \* calls of the agent endpoints in one behaviour
MaxWorkers == 2     \* chat-meta requests handled at the same time
MaxTicks == 2       \* scheduler ticks that wrote to the store in one behaviour

(***************************************************************************)
(* Responses.  A body is identified by where it came from: the candidate   *)
(* and header set of the network call that produced it, or the name of a   *)
(* synthetic body built by the client.  shape "other" is a JSON body that  *)
(* parses to a truthy non-object (a list, a string, a number).             *)
(***************************************************************************)
Resp(st, tag, c, h, shape) == [st |-> st, tag |-> tag, c |-> c, h |-> h, shape |-> shape]
NoneResp == Resp(0, "None", 0, 0, "obj")
Net(st, c, h, shape) == Resp(st, "net", c, h, shape)
\* {"http_status": 599, "body": {"error": str(e)}}
TransportError(c, h) == Resp(599, "exception", c, h, "obj")
\* {"http_status": 599, "body": {"error": "request_failed"}}
RequestFailed == Resp(599, "request_failed", 0, 0, "obj")
\* 500, {"status": 500, "error": "No endpoint matched"}
NoEndpointMatched == Resp(500, "No endpoint matched", 0, 0, "obj")

Statuses == {200, 401, 403, 404, 409, 500}
\* What the provider (or the network) answers to one call of operation o.  The
\* shape of a body is read by create_instance and instance_exists only, so it is
\* left open for these two alone.
Shapes(o) == IF o \in {"create_instance", "fetch_instances"} THEN {"obj", "other"}
             ELSE {"obj"}
Answers(o) == [exc : {FALSE}, st : Statuses, shape : Shapes(o)]
                \cup {[exc |-> TRUE, st |-> 0, shape |-> "obj"]}

\* _hdr_sets(): three header variants with an API key, one without
_hdr_sets == IF apiKeySet THEN <<"X-API-KEY", "Bearer", "apikey">> ELSE <<"base">>

_ok(status) == 200 <= status /\ status < 400

(***************************************************************************)
(* EvolutionClient (src/wa_evolution.py).                                  *)
(***************************************************************************)
\* create_instance: five integration alternatives, five body variants for
\* each, then three historical routes
IntegAlternatives == 5
BodyVariants == 5
HistoricalRoutes == 3

\* the operations that probe an ordered list of endpoint candidates
EvoOps == {"fetch_instances", "create_instance", "set_webhook", "connect_instance",
           "connection_state", "delete_instance", "qr_by_param", "list_chats",
           "get_chat_messages", "send_text"}

\* length of each operation's candidate list
NumCand(o) ==
    CASE o = "create_instance" -> IntegAlternatives * BodyVariants + HistoricalRoutes
      [] o = "set_webhook" -> 3
      [] o = "qr_by_param" -> 3
      [] o = "list_chats" -> 8
      [] o = "get_chat_messages" -> 3
      [] o \in {"connect_instance", "connection_state", "delete_instance"} -> 2
      [] OTHER -> 1

\* as RequestStep, but every status that is not a success is retried with the
\* next header set
RequestStepRetryNotOk(a, c, h) ==
    IF ~a.exc /\ a.st \notin {401, 403, 404, 409, 500}
    THEN [fin |-> TRUE, out |-> Net(a.st, c, h, a.shape)]
    ELSE LET last == IF a.exc THEN TransportError(c, h) ELSE Net(a.st, c, h, a.shape)
         IN  [fin |-> h >= Len(_hdr_sets), out |-> last]

\* One pass of the loop body of _request for header set h of candidate c, the
\* network having answered a.  fin: _request returns out; otherwise out is the
\* new `last` and the next header set is tried.
RequestStep(a, c, h) ==
    IF ~a.exc /\ a.st \notin {401, 403}
    THEN [fin |-> TRUE, out |-> Net(a.st, c, h, a.shape)]
    ELSE LET last == IF a.exc THEN TransportError(c, h) ELSE Net(a.st, c, h, a.shape)
         IN  [fin |-> h >= Len(_hdr_sets), out |-> last]

\* What an operation returns once its last candidate has failed with R
\* (rsq: r1..r3 of qr_by_param).
Exhausted(o, R, rsq) ==
    CASE o = "qr_by_param" -> rsq[2]
      [] o \in {"list_chats", "get_chat_messages"} -> NoEndpointMatched
      [] OTHER -> R

\* CandidateStep with the `return` on an accepted response left out: the loop
\* goes on to the next candidate
CandidateStepNoStop(o, c, R, rsq) ==
    IF o = "create_instance" /\ ~_ok(R.st) /\ R.shape = "other"
    THEN [k |-> "raise", res |-> R]
    ELSE IF c < NumCand(o) THEN [k |-> "next", res |-> R]
    ELSE IF _ok(R.st) THEN [k |-> "return", res |-> R]
    ELSE [k |-> "return", res |-> Exhausted(o, R, rsq)]

\* The body of an operation's candidate loop after _request returned R for
\* candidate c: return R when accepted, go on to the next candidate, or return
\* the exhaustion result.  create_instance reads (resp.get("body") or
\* {}).get("response") of a failed attempt, which raises AttributeError when the
\* body is a truthy non-object.
CandidateStep(o, c, R, rsq) ==
    IF _ok(R.st) THEN [k |-> "return", res |-> R]
    ELSE IF o = "create_instance" /\ R.shape = "other" THEN [k |-> "raise", res |-> R]
    ELSE IF c < NumCand(o) THEN [k |-> "next", res |-> R]
    ELSE [k |-> "return", res |-> Exhausted(o, R, rsq)]

\* What fetchInstances lists, when its body is a JSON object
Listings == {"lists_it", "not_listed", "bad_items"}

\* instance_exists on the response R of fetch_instances: "true", "false", or
\* "raise" (an item of the list is not an object: it.get raises)
instance_exists(R, listing) ==
    IF ~_ok(R.st) \/ R.shape # "obj" THEN "false"
    ELSE CASE listing = "lists_it" -> "true"
           [] listing = "bad_items" -> "raise"
           [] OTHER -> "false"

Ret(resp) == [kind |-> "ret", resp |-> resp]
Raised(resp) == [kind |-> "raise", resp |-> resp]
NoResult == [kind |-> "none", resp |-> NoneResp]
\* detail: the http_status of each sub-step (0: None), bodies left out
NoDetail == [create |-> 0, webhook |-> 0, connect |-> 0, exists_error |-> FALSE]

\* ensure_started returning {"error": "webhook_failed"} when set_webhook fails,
\* the way it does for create and connect
ensure_startedWebhookFatal(stage, step, listing, d, url) ==
    LET afterCreate == IF url THEN "set_webhook" ELSE "connect_instance" IN
    CASE stage = "fetch_instances" ->
           LET ex == instance_exists(step.res, listing)
               d2 == [d EXCEPT !.exists_error = (ex = "raise")]
           IN  [next |-> IF ex = "true" THEN afterCreate ELSE "create_instance",
                detail |-> d2, result |-> NoResult]
      [] stage = "create_instance" ->
           IF step.k = "raise"
           THEN [next |-> "none", detail |-> d, result |-> Raised(step.res)]
           ELSE LET d2 == [d EXCEPT !.create = step.res.st] IN
                IF ~_ok(step.res.st)
                THEN [next |-> "none", detail |-> d2,
                      result |-> Ret(Resp(step.res.st, "create_failed", 0, 0, "obj"))]
                ELSE [next |-> afterCreate, detail |-> d2, result |-> NoResult]
      [] stage = "set_webhook" ->
           LET d2 == [d EXCEPT !.webhook = step.res.st] IN
           IF ~_ok(step.res.st)
           THEN [next |-> "none", detail |-> d2,
                 result |-> Ret(Resp(step.res.st, "webhook_failed", 0, 0, "obj"))]
           ELSE [next |-> "connect_instance", detail |-> d2, result |-> NoResult]
      [] OTHER ->
           LET d2 == [d EXCEPT !.connect = step.res.st] IN
           [next |-> "none", detail |-> d2,
            result |-> IF ~_ok(step.res.st)
                       THEN Ret(Resp(step.res.st, "connect_failed", 0, 0, "obj"))
                       ELSE Ret(Resp(200, "ok", 0, 0, "obj"))]

\* ensure_started, continued after its sub-operation `stage` finished with
\* `step` (a CandidateStep record): the next sub-operation ("none": the
\* operation is over), the detail record and the result.
ensure_started(stage, step, listing, d, url) ==
    LET afterCreate == IF url THEN "set_webhook" ELSE "connect_instance" IN
    CASE stage = "fetch_instances" ->
           LET ex == instance_exists(step.res, listing)
               d2 == [d EXCEPT !.exists_error = (ex = "raise")]
           IN  [next |-> IF ex = "true" THEN afterCreate ELSE "create_instance",
                detail |-> d2, result |-> NoResult]
      [] stage = "create_instance" ->
           IF step.k = "raise"
           THEN [next |-> "none", detail |-> d, result |-> Raised(step.res)]
           ELSE LET d2 == [d EXCEPT !.create = step.res.st] IN
                IF ~_ok(step.res.st)
                THEN [next |-> "none", detail |-> d2,
                      result |-> Ret(Resp(step.res.st, "create_failed", 0, 0, "obj"))]
                ELSE [next |-> afterCreate, detail |-> d2, result |-> NoResult]
      [] stage = "set_webhook" ->
           [next |-> "connect_instance", detail |-> [d EXCEPT !.webhook = step.res.st],
            result |-> NoResult]
      [] OTHER ->  \* connect_instance
           LET d2 == [d EXCEPT !.connect = step.res.st] IN
           [next |-> "none", detail |-> d2,
            result |-> IF ~_ok(step.res.st)
                       THEN Ret(Resp(step.res.st, "connect_failed", 0, 0, "obj"))
                       ELSE Ret(Resp(200, "ok", 0, 0, "obj"))]

(***************************************************************************)
(* channels.py: raw helpers _evo_get / _evo_post and _ensure_started.      *)
(***************************************************************************)
ChOps == {"ch_create", "ch_webhook", "ch_connect"}
ChCreatePaths == 4      \* /instance/create, /add, /init, /create/{instance}
ChWebhookPaths == 3     \* each tried with GET, then with POST

\* _evo_get / _evo_post: one call carrying every header; an exception becomes
\* (500, {"error": str(e)})
_evo_call(a, c) ==
    IF a.exc THEN Resp(500, "exception", c, 1, "obj") ELSE Net(a.st, c, 1, a.shape)

\* _ensure_started after the call for candidate c of `stage` returned R: the
\* stage and candidate to go on with ("none": return {"ok": True, ...}).
_ensure_started(stage, c, R, d) ==
    CASE stage = "ch_create" ->
           LET brk == (200 <= R.st /\ R.st < 300) \/ R.st \in {400, 403, 409} IN
           [stage |-> IF brk \/ c >= ChCreatePaths THEN "ch_webhook" ELSE "ch_create",
            cand |-> IF brk \/ c >= ChCreatePaths THEN 1 ELSE c + 1,
            detail |-> [d EXCEPT !.create = R.st], result |-> NoResult]
      [] stage = "ch_webhook" ->
           IF 200 <= R.st /\ R.st < 300
           THEN [stage |-> "ch_connect", cand |-> 1,
                 detail |-> [d EXCEPT !.webhook = R.st], result |-> NoResult]
           ELSE IF c < 2 * ChWebhookPaths
           THEN [stage |-> "ch_webhook", cand |-> c + 1, detail |-> d, result |-> NoResult]
           ELSE [stage |-> "ch_connect", cand |-> 1,
                 \* {"http_status": 404, "body": {"error": "webhook endpoint not found"}}
                 detail |-> [d EXCEPT !.webhook = 404],
                 result |-> NoResult]
      [] OTHER ->  \* ch_connect
           [stage |-> "none", cand |-> 1, detail |-> [d EXCEPT !.connect = R.st],
            result |-> Ret(Resp(200, "ok", 0, 0, "obj"))]

(***************************************************************************)
(* Observations.                                                           *)
(***************************************************************************)
Min(a, b) == IF a < b THEN a ELSE b
NetOutcome(a, c, h) == IF a.exc THEN TransportError(c, h) ELSE Net(a.st, c, h, a.shape)
\* the calls so far were answered 404, 404, 200 (0..3: that far; -1: otherwise)
ScenNext(n, a) ==
    IF n = 3 THEN 3
    ELSE IF n \in {0, 1} /\ ~a.exc /\ a.st = 404 THEN n + 1
    ELSE IF n = 2 /\ ~a.exc /\ a.st = 200 THEN 3
    ELSE -1
PhaseLog(ph, o) == IF Len(ph) > 0 /\ ph[Len(ph)] = o THEN ph ELSE Append(ph, o)
Running == top # "idle" /\ cur # "none"
Done == top # "idle" /\ cur = "none"

(***************************************************************************)
(* Adapter actions.                                                        *)
(***************************************************************************)
InitAdapter ==
    /\ apiKeySet \in BOOLEAN
    /\ provExists \in BOOLEAN
    /\ top = "idle" /\ cur = "none" /\ cand = 1 /\ hdr = 1
    /\ reqLast = RequestFailed /\ rs = <<>> /\ detail = NoDetail
    /\ webhookUrl = FALSE /\ result = NoResult
    /\ ncalls = 0 /\ tried = <<>> /\ lastNet = NoneResp /\ firstOk = 0 /\ scen = 0
    /\ phases = <<>> /\ existedAtStart = FALSE

Start(t, o, url) ==
    /\ top = "idle"
    /\ top' = t /\ cur' = o /\ cand' = 1 /\ hdr' = 1
    /\ reqLast' = RequestFailed /\ rs' = <<>> /\ detail' = NoDetail
    /\ webhookUrl' = url /\ result' = NoResult
    /\ ncalls' = 0 /\ tried' = <<>> /\ lastNet' = NoneResp /\ firstOk' = 0 /\ scen' = 0
    /\ phases' = <<>> /\ existedAtStart' = provExists
    /\ UNCHANGED <<apiKeySet, provExists>>
    /\ UNCHANGED <<webhookVars, adminVars, agentVars, boardVars>>

\* a caller invokes one probing operation of EvolutionClient
CallOperation == \E o \in EvoOps : Start(o, o, FALSE)
CallInstanceExists == Start("instance_exists", "fetch_instances", FALSE)
CallEnsureStarted == \E url \in BOOLEAN : Start("ensure_started", "fetch_instances", url)
\* POST /api/wa/start -> _ensure_started(instance, webhook_url)
wa_start == Start("_ensure_started", "ch_create", TRUE)

\* the provider creates the instance on an accepted create, drops it on an
\* accepted delete
ProviderAfter(o, a) ==
    IF a.exc \/ ~(200 <= a.st /\ a.st < 300) THEN provExists
    ELSE IF o \in {"create_instance", "ch_create"} THEN TRUE
    ELSE IF o = "delete_instance" THEN FALSE
    ELSE provExists

\* one network call of EvolutionClient._request and everything the client does
\* with its answer before the next call
NetCall ==
    /\ Running /\ cur \in EvoOps
    /\ \E a \in Answers(cur), l \in Listings :
         /\ l = "lists_it" => provExists
         /\ l # "not_listed" => cur = "fetch_instances"
         /\ LET q == RequestStep(a, cand, hdr)
                rs2 == IF q.fin /\ cur = "qr_by_param" THEN Append(rs, q.out) ELSE rs
                step == CandidateStep(cur, cand, q.out, rs2)
                over == q.fin /\ step.k # "next"
                es == ensure_started(cur, step, l, detail, webhookUrl)
                ex == instance_exists(step.res, l)
                nextCur == IF ~over THEN cur
                           ELSE IF top = "ensure_started" THEN es.next ELSE "none"
                \* the calls of a sub-operation of ensure_started are observed
                \* through `phases` alone
                fresh == top = "ensure_started"
            IN  /\ cur' = nextCur
                /\ cand' = IF ~q.fin THEN cand ELSE IF over THEN 1 ELSE cand + 1
                /\ hdr' = IF q.fin THEN 1 ELSE hdr + 1
                /\ reqLast' = IF q.fin THEN RequestFailed ELSE q.out
                /\ rs' = IF over THEN <<>> ELSE rs2
                /\ detail' = IF over /\ top = "ensure_started" THEN es.detail ELSE detail
                /\ result' =
                     IF ~over THEN result
                     ELSE IF top = "ensure_started" THEN es.result
                     ELSE IF top = "instance_exists"
                     THEN (IF ex = "raise" THEN Raised(step.res)
                           ELSE Ret(Resp(IF ex = "true" THEN 1 ELSE 0, "bool", 0, 0, "obj")))
                     ELSE IF step.k = "raise" THEN Raised(step.res) ELSE Ret(step.res)
                /\ ncalls' = IF fresh THEN 0 ELSE Min(ncalls + 1, CallCap)
                /\ tried' = IF fresh THEN <<>>
                            ELSE IF hdr = 1 THEN Append(tried, cand) ELSE tried
                /\ lastNet' = IF fresh THEN NoneResp ELSE NetOutcome(a, cand, hdr)
                /\ firstOk' = IF fresh THEN 0
                              ELSE IF firstOk = 0 /\ q.fin /\ q.out.st \in 200..399
                              THEN cand ELSE firstOk
                /\ scen' = IF fresh THEN 0 ELSE ScenNext(scen, a)
                /\ phases' = PhaseLog(phases, cur)
                /\ provExists' = ProviderAfter(cur, a)
    /\ UNCHANGED <<apiKeySet, top, webhookUrl, existedAtStart>>
    /\ UNCHANGED <<webhookVars, adminVars, agentVars, boardVars>>

\* one call of _evo_get / _evo_post inside _ensure_started
EvoCall ==
    /\ Running /\ cur \in ChOps
    /\ \E a \in Answers(cur) :
         LET R == _evo_call(a, cand)
             n == _ensure_started(cur, cand, R, detail)
         IN  /\ cur' = n.stage /\ cand' = n.cand
             /\ detail' = n.detail /\ result' = n.result
             /\ phases' = PhaseLog(phases, cur)
             /\ provExists' = ProviderAfter(cur, a)
    /\ UNCHANGED <<apiKeySet, top, hdr, reqLast, rs, webhookUrl, existedAtStart,
                   ncalls, tried, lastNet, firstOk, scen>>
    /\ UNCHANGED <<webhookVars, adminVars, agentVars, boardVars>>

\* the caller has taken the result; the client is stateless between calls
Return ==
    /\ Done
    /\ top' = "idle"
    /\ UNCHANGED <<apiKeySet, provExists, cur, cand, hdr, reqLast, rs, detail, webhookUrl,
                   result, ncalls, tried, lastNet, firstOk, scen, phases, existedAtStart>>
    /\ UNCHANGED <<webhookVars, adminVars, agentVars, boardVars>>

NextAdapter ==
    \/ CallOperation
    \/ CallInstanceExists
    \/ CallEnsureStarted
    \/ wa_start
    \/ NetCall
    \/ EvoCall
    \/ Return

(***************************************************************************)
(* Webhook payloads.  A string that may hold a conversation identifier is  *)
(* a record: `local`, the characters before the first "@", and `dom`, the  *)
(* text after it ("" when the string has no "@").  The empty string is     *)
(* NoStr.  Texts, tokens and instance names are TLA+ strings.              *)
(***************************************************************************)
Str(local, dom) == [local |-> local, dom |-> dom]
NoStr == Str(<<>>, "")
Digits == {"0", "1", "2", "3", "4", "5", "6", "7", "8", "9"}
IsDigit(ch) == ch \in Digits
WaDomain == "s.whatsapp.net"

\* _digits_only(s): the digit characters of s (no domain of the model holds one)
_digits_only(s) == Str(SelectSeq(s.local, IsDigit), "")

\* "@s.whatsapp.net" in s
HasWaDomain(s) == s.dom = WaDomain

\* a raw message object as the provider sends it; "" / NoStr / 0: field absent
BlankMsg ==
    [keyRemoteJid |-> NoStr, keyFromMe |-> FALSE, chatId |-> NoStr, remoteJid |-> NoStr,
     jid |-> NoStr, number |-> NoStr, idRemote |-> NoStr, fromMe |-> FALSE,
     text |-> "", body |-> "", conversation |-> "", extText |-> "", caption |-> "",
     imageCaption |-> "", messageTimestamp |-> 0, timestamp |-> 0,
     \* the element is a JSON object (not a string or a number); the "data" of
     \* the event that carries it is an object ("obj") or a string ("str")
     isObject |-> TRUE, evData |-> "obj"]

\* msg["message"] is an object
HasMessage(m) ==
    m.conversation # "" \/ m.extText # "" \/ m.caption # "" \/ m.imageCaption # ""

\* f"🤖 Recibido: {text[:180]}" (no text of the model is longer than 180)
AckText(t) == "Recibido: " \o t

\* the direction flag of a raw message marks it as sent by the tenant side
FromTenantSide(m) == m.fromMe \/ m.keyFromMe

(***************************************************************************)
(* Tenant resolution.  An instance name is <pre><sep><tail>.               *)
(***************************************************************************)
Inst(pre, sep, tl) == [pre |-> pre, sep |-> sep, tl |-> tl]
NoInst == Inst("", "", "")
\* int(s): 0 stands for "raises ValueError" (no tenant of the model is 0)
IntOf(tl) == CASE tl = "1" -> 1 [] tl = "2" -> 2 [] OTHER -> 0
None == -1

\* wa_admin.webhook: instance.startswith("brand_") and int(instance.split("_", 1)[1])
BrandIdAdmin(i) ==
    IF i.pre = "brand" /\ i.sep = "_" /\ IntOf(i.tl) # 0 THEN IntOf(i.tl) ELSE None

\* channels._brand_id_from_instance: 'brand_1', 'brand-1', '1' -> 1
_brand_id_from_instance(i) ==
    IF i = NoInst THEN None
    ELSE IF i.pre = "" /\ i.sep = "" THEN (IF IntOf(i.tl) # 0 THEN IntOf(i.tl) ELSE None)
    ELSE IF i.sep \in {"_", "-"} /\ IntOf(i.tl) # 0 THEN IntOf(i.tl)
    ELSE None

\* a or b, for instance names
OrInst(a, b) == IF a # NoInst THEN a ELSE b
\* a or b, for strings
OrStr(a, b) == IF a # NoStr THEN a ELSE b
OrText(a, b) == IF a # "" THEN a ELSE b

(***************************************************************************)
(* Conversation identifiers.                                               *)
(***************************************************************************)
\* channels._canonical_msisdn_ar: '549xx...' -> '54xx...'
_canonical_msisdn_ar(d) ==
    LET dd == _digits_only(d).local IN
    IF Len(dd) >= 5 /\ SubSeq(dd, 1, 3) = <<"5", "4", "9">>
    THEN <<"5", "4">> \o SubSeq(dd, 4, Len(dd))
    ELSE dd

\* channels._canonical_jid
_canonical_jid(j) ==
    LET num == IF HasWaDomain(j) THEN Str(j.local, "") ELSE _digits_only(j)
    IN  Str(_canonical_msisdn_ar(num), WaDomain)

\* str.strip() on the texts of the model
Strip(t) == IF t = " " THEN "" ELSE t

(***************************************************************************)
(* wa_admin.webhook                                                        *)
(***************************************************************************)
EVOLUTION_WEBHOOK_TOKEN == "evolution"

\* the token compared without regard to case
TokenOkAnyCase(token) ==
    (IF token = "Evolution" THEN "evolution" ELSE token) = EVOLUTION_WEBHOOK_TOKEN

\* token == EVOLUTION_WEBHOOK_TOKEN
TokenOk(token) == token = EVOLUTION_WEBHOOK_TOKEN

WAMessage(brand, jid, fromMe, text, ts) ==
    [brand_id |-> brand, jid |-> jid, from_me |-> fromMe, text |-> text, ts |-> ts]

\* the text of one candidate of _extract_incoming_evolution
AdminText(m) ==
    Strip(OrText(m.text, OrText(m.body, OrText(m.conversation,
          OrText(m.extText, m.imageCaption)))))

\* its conversation identifier; in the list branch an empty identifier too gets
\* the domain appended, in the single-object branch only a non-empty one
AdminJid(m, listBranch) ==
    LET j == OrStr(m.chatId, OrStr(m.remoteJid, OrStr(m.keyRemoteJid, m.idRemote)))
    IN  IF (listBranch \/ j # NoStr) /\ ~HasWaDomain(j)
        THEN Str(_digits_only(j).local, WaDomain)
        ELSE j

\* AdminKeeps without the from_me test
AdminKeepsAnyDirection(m, listBranch) ==
    /\ AdminText(m) # ""
    /\ AdminJid(m, listBranch) # NoStr

\* the candidate is kept: it has a text, is not from the tenant side, has a jid
AdminKeeps(m, listBranch) ==
    /\ AdminText(m) # ""
    /\ ~(m.fromMe \/ m.keyFromMe)
    /\ AdminJid(m, listBranch) # NoStr

\* _extract_incoming_evolution(p), p an object: [{"jid", "text"}], each with the
\* raw message it was read from
_extract_incoming_evolution(p) ==
    LET listBranch == p.form = "A"
        \* form "C": body = p.get("data") or p.get("body") or p is the string
        \* p["body"] when the raw message carries its text there
        \* form "A" with a string as "data": body is that string, no candidates
        cands == IF p.form = "C" /\ p.msgs[1].body # "" THEN <<>>
                 ELSE IF p.form = "A" /\ p.msgs[1].evData # "obj" THEN <<>>
                 ELSE p.msgs
        kept == SelectSeq(cands, LAMBDA m : AdminKeeps(m, listBranch))
    IN  [i \in 1..Len(kept) |->
            [jid |-> AdminJid(kept[i], listBranch), text |-> AdminText(kept[i]),
             src |-> kept[i]]]

Outcome(status, note, adds, sends) ==
    [status |-> status, note |-> note, adds |-> adds, sends |-> sends]

\* POST /api/wa/webhook of routers/wa_admin.py, at time t
AdminWebhook(req, t) ==
    LET p == req.payload
        instance == OrInst(req.instance, OrInst(p.instance, OrInst(p.instanceName, p.session)))
        brand == BrandIdAdmin(instance)
        incoming == _extract_incoming_evolution(p)
        n == Len(incoming)
        inbound(i) == WAMessage(brand, incoming[i].jid, FALSE, incoming[i].text, t)
        ack(i) == WAMessage(brand, incoming[i].jid, TRUE, AckText(incoming[i].text), t)
    IN  IF ~TokenOk(req.token) THEN Outcome(401, "token invalido", <<>>, <<>>)
        \* a JSON list has no .get: AttributeError, answered 500
        ELSE IF p.form = "B" /\ req.instance = NoInst
        THEN Outcome(500, "error", <<>>, <<>>)
        ELSE IF brand = None THEN Outcome(200, "no brand", <<>>, <<>>)
        ELSE IF p.form = "B" THEN Outcome(500, "error", <<>>, <<>>)
        \* m.get on an element of "messages" that is not an object: AttributeError
        \* out of _extract_incoming_evolution, answered 500
        ELSE IF p.form = "A" /\ p.msgs[1].evData = "obj"
                /\ \E i \in 1..Len(p.msgs) : ~p.msgs[i].isObject
        THEN Outcome(500, "error", <<>>, <<>>)
        ELSE IF n = 0 THEN Outcome(200, "no inbound", <<>>, <<>>)
        ELSE Outcome(200, "processed",
                     [k \in 1..(2 * n) |->
                         IF k % 2 = 1 THEN inbound((k + 1) \div 2) ELSE ack(k \div 2)],
                     [i \in 1..n |->
                         [instance |-> instance, to |-> incoming[i].jid.local,
                          text |-> AckText(incoming[i].text),
                          \* the reply is the fixed auto-ACK; no agent is called
                          by |-> "auto-ack", inReplyTo |-> incoming[i].text,
                          causeFromTenant |-> FromTenantSide(incoming[i].src)]])

(***************************************************************************)
(* channels.wa_webhook                                                     *)
(***************************************************************************)
\* channels._extract_text(msg).  body = msg["message"] or msg["body"] or msg;
\* when that is the string msg["body"], body.get raises (raise |-> TRUE).
_extract_text(m) ==
    IF HasMessage(m)
    THEN [raise |-> FALSE,
          text |-> OrText(m.conversation, OrText(m.extText, OrText(m.caption,
                          OrText(m.text, m.body))))]
    ELSE IF m.body # "" THEN [raise |-> TRUE, text |-> ""]
    ELSE [raise |-> FALSE, text |-> m.text]

\* iter_messages over raw_events: the message objects of the delivery, in order
iter_messages(p) == p.msgs

\* ChannelsRows with the message's own timestamp fields only (0 when absent)
ChannelsRowsNoIngestionTime(m, brandFinal, t) ==
    LET from_me == m.keyFromMe
        j0 == OrStr(m.keyRemoteJid, OrStr(m.remoteJid, m.jid))
        num == _digits_only(m.number)
        remote_jid == IF j0 # NoStr THEN j0
                      ELSE IF num # NoStr THEN Str(num.local, WaDomain) ELSE NoStr
        x == _extract_text(m)
        ts == IF m.messageTimestamp # 0 THEN m.messageTimestamp ELSE m.timestamp
    IN  IF ~m.isObject THEN <<>>
        ELSE IF x.raise \/ remote_jid = NoStr THEN <<>>
        ELSE IF from_me = FALSE /\ x.text # ""
        THEN <<WAMessage(brandFinal, _canonical_jid(remote_jid), FALSE, x.text, ts)>>
        ELSE <<>>

\* the row one message object adds to the session, or none: the body of the
\* try block of the loop
ChannelsRows(m, brandFinal, t) ==
    LET from_me == m.keyFromMe
        j0 == OrStr(m.keyRemoteJid, OrStr(m.remoteJid, m.jid))
        num == _digits_only(m.number)
        remote_jid == IF j0 # NoStr THEN j0
                      ELSE IF num # NoStr THEN Str(num.local, WaDomain) ELSE NoStr
        x == _extract_text(m)
        ts == IF m.messageTimestamp # 0 THEN m.messageTimestamp
              ELSE IF m.timestamp # 0 THEN m.timestamp ELSE t
    IN  \* msg.get on a non-object raises inside the try block: logged, skipped
        IF ~m.isObject THEN <<>>
        ELSE IF x.raise \/ remote_jid = NoStr THEN <<>>
        ELSE IF from_me = FALSE /\ x.text # ""
        THEN <<WAMessage(brandFinal, _canonical_jid(remote_jid), FALSE, x.text, ts)>>
        ELSE <<>>

RECURSIVE ConcatRows(_, _, _)
ConcatRows(ms, brandFinal, t) ==
    IF ms = <<>> THEN <<>>
    ELSE ChannelsRows(Head(ms), brandFinal, t) \o ConcatRows(Tail(ms), brandFinal, t)

\* the tenant of the delivery: brand_id from the query string, from the instance
\* query parameter, or from the payload's instance-name fields (None: none)
ChannelsBrand(req) ==
    LET p == req.payload
        fromQs == IF req.brand_id # None /\ req.brand_id # 0 THEN req.brand_id
                  ELSE _brand_id_from_instance(req.instance)
        \* payload.get raises on a JSON list: brand_id = None
        maybe_inst == IF p.form = "B" THEN NoInst
                      ELSE OrInst(p.instanceName, OrInst(p.instance, p.bodyInstanceName))
    IN  IF fromQs # None THEN fromQs ELSE _brand_id_from_instance(maybe_inst)

\* wa_webhook without the early return for GET
ChannelsWebhookNoPing(req, t) ==
    LET brand_id == ChannelsBrand(req)
        _brand_id_final == IF brand_id # None THEN brand_id ELSE 0
    IN  IF ~TokenOk(req.token) THEN Outcome(403, "invalid token", <<>>, <<>>)
        ELSE IF req.payload.form \in {"A", "B"}
                /\ \E i \in 1..Len(req.payload.msgs) : req.payload.msgs[i].evData # "obj"
        THEN Outcome(500, "error", <<>>, <<>>)
        ELSE Outcome(200, "saved",
                     ConcatRows(iter_messages(req.payload), _brand_id_final, t), <<>>)

\* POST or GET /api/wa/webhook of routers/channels.py, at time t
ChannelsWebhook(req, t) ==
    LET brand_id == ChannelsBrand(req)
        _brand_id_final == IF brand_id # None THEN brand_id ELSE 0
    IN  IF ~TokenOk(req.token) THEN Outcome(403, "invalid token", <<>>, <<>>)
        ELSE IF req.method = "GET" THEN Outcome(200, "ping", <<>>, <<>>)
        \* iter_messages calls d.get on the "data" of an event: a string there
        \* raises AttributeError outside the try block, before s.commit()
        ELSE IF req.payload.form \in {"A", "B"}
                /\ \E i \in 1..Len(req.payload.msgs) : req.payload.msgs[i].evData # "obj"
        THEN Outcome(500, "error", <<>>, <<>>)
        ELSE Outcome(200, "saved",
                     ConcatRows(iter_messages(req.payload), _brand_id_final, t), <<>>)

(***************************************************************************)
(* Webhook deliveries.                                                     *)
(***************************************************************************)
StartTime == 100    \* int(time.time()) when the process started

J1 == Str(<<"5", "4", "9", "1", "1", "5">>, WaDomain)
\* an inbound text message, the provider's echo of the auto-ACK sent for it, and
\* a message with no conversation identifier
MsgIn == [BlankMsg EXCEPT !.keyRemoteJid = J1, !.conversation = "hola"]
MsgEcho == [BlankMsg EXCEPT !.keyRemoteJid = J1, !.keyFromMe = TRUE,
                            !.conversation = AckText("hola")]
MsgNoJid == [BlankMsg EXCEPT !.conversation = "hola"]
\* an inbound request for an appointment, an element of "messages" that is a
\* JSON string, and an event whose "data" is a string
MsgTurno == [BlankMsg EXCEPT !.keyRemoteJid = J1, !.conversation = "quiero un turno"]
MsgBad == [BlankMsg EXCEPT !.isObject = FALSE]
MsgEvBad == [BlankMsg EXCEPT !.evData = "str"]
\* an inbound message that carries the provider's timestamp, from before the
\* process started
MsgOld == [MsgIn EXCEPT !.messageTimestamp = StartTime - 50]

\* an inbound message with a top-level "text" next to message.conversation
MsgBoth == [MsgIn EXCEPT !.text = "plain"]

\* an inbound message of a number with a second 9 after the country code
J9 == Str(<<"5", "4", "9", "9", "1", "1", "5">>, WaDomain)
MsgNine == [MsgIn EXCEPT !.keyRemoteJid = J9]

Payload(form, instanceName, bodyInstanceName, msgs) ==
    [form |-> form, instance |-> NoInst, instanceName |-> instanceName,
     session |-> NoInst, bodyInstanceName |-> bodyInstanceName, msgs |-> msgs]

\* form "A": {"event": .., "instanceName": .., "data": {"messages": [..]}};
\* form "B": a JSON list of such events, one message each;
\* form "C": one raw message object
Payloads ==
    {Payload("A", NoInst, NoInst, ms) :
        ms \in {<<MsgIn>>, <<MsgEcho>>, <<MsgNoJid>>, <<MsgIn, MsgEcho>>}}
    \cup {Payload("A", NoInst, NoInst, <<MsgTurno>>),
          Payload("A", NoInst, NoInst, <<MsgBad, MsgIn>>),
          Payload("B", NoInst, NoInst, <<MsgIn, MsgEvBad>>),
          Payload("A", NoInst, NoInst, <<MsgOld>>),
          Payload("A", NoInst, NoInst, <<MsgBoth>>),
          Payload("A", NoInst, NoInst, <<MsgNine>>),
          Payload("A", Inst("brand", "_", "2"), NoInst, <<MsgIn>>),
          Payload("A", NoInst, Inst("brand", "-", "2"), <<MsgIn>>),
          Payload("B", NoInst, NoInst, <<MsgIn>>),
          Payload("C", NoInst, NoInst, <<MsgIn>>),
          Payload("C", NoInst, NoInst, <<MsgNoJid>>)}

Tokens == {"evolution", "Evolution"}
InstanceParams == {NoInst, Inst("brand", "_", "1")}
BrandIdParams == {None, 2}

Request(handler, method, token, instance, brand_id, payload) ==
    [handler |-> handler, method |-> method, token |-> token, instance |-> instance,
     brand_id |-> brand_id, payload |-> payload]

\* the handler's own tenant resolution
TenantOf(req) ==
    IF req.handler = "wa_admin"
    THEN BrandIdAdmin(OrInst(req.instance, OrInst(req.payload.instance,
                      OrInst(req.payload.instanceName, req.payload.session))))
    ELSE ChannelsBrand(req)

\* message m is the provider's echo of a reply the webhook sent before
IsEchoOf(m, snt) ==
    /\ FromTenantSide(m)
    /\ \E k \in 1..Len(snt) :
          snt[k].text = AdminText(m) /\ snt[k].to = AdminJid(m, TRUE).local

\* m is an inbound message with a text and a conversation identifier
Routable(m) ==
    /\ m.isObject /\ m.evData = "obj"
    /\ ~FromTenantSide(m)
    /\ OrText(m.text, OrText(m.body, OrText(m.conversation, m.extText))) # ""
    /\ OrStr(m.keyRemoteJid, OrStr(m.remoteJid, OrStr(m.chatId, m.jid))) # NoStr

\* m is flagged as sent by the tenant side and has a text and a conversation
\* identifier
OutboundCandidate(m) ==
    /\ m.isObject /\ m.evData = "obj"
    /\ FromTenantSide(m)
    /\ OrText(m.text, OrText(m.body, OrText(m.conversation, m.extText))) # ""
    /\ OrStr(m.keyRemoteJid, OrStr(m.remoteJid, OrStr(m.chatId, m.jid))) # NoStr

\* no field of m holds a conversation identifier or a number
NoIdentifier(m) ==
    /\ m.isObject /\ m.evData = "obj"
    /\ m.keyRemoteJid = NoStr /\ m.remoteJid = NoStr /\ m.chatId = NoStr
    /\ m.jid = NoStr /\ m.idRemote = NoStr /\ m.number = NoStr

\* the first non-empty value among the plain-text fields, message.conversation,
\* message.extendedTextMessage.text and the captions
TextByPriority(m) ==
    OrText(m.text, OrText(m.body, OrText(m.conversation,
           OrText(m.extText, OrText(m.imageCaption, m.caption)))))

Summary(req, snt) ==
    LET ms == req.payload.msgs IN
    [handler |-> req.handler, method |-> req.method, token |-> req.token,
     tenant |-> TenantOf(req),
     echo |-> \E i \in 1..Len(ms) : IsEchoOf(ms[i], snt),
     allFromTenant |-> \A i \in 1..Len(ms) : FromTenantSide(ms[i]),
     routable |-> \E i \in 1..Len(ms) : Routable(ms[i]),
     nRoutable |-> Len(SelectSeq(ms, Routable)),
     noTs |-> \A i \in 1..Len(ms) : ms[i].messageTimestamp = 0 /\ ms[i].timestamp = 0,
     nOutbound |-> Len(SelectSeq(ms, OutboundCandidate)),
     noJid |-> \A i \in 1..Len(ms) : NoIdentifier(ms[i]),
     form |-> req.payload.form,
     byPriority |-> {TextByPriority(ms[i]) : i \in 1..Len(ms)},
     texts |-> {AdminText(ms[i]) : i \in {k \in 1..Len(ms) : Routable(ms[k])}}]

NoRequest ==
    [handler |-> "none", method |-> "none", token |-> "", tenant |-> None, echo |-> FALSE,
     allFromTenant |-> FALSE, routable |-> FALSE, nRoutable |-> 0, noTs |-> TRUE,
     nOutbound |-> 0, noJid |-> FALSE, form |-> "", byPriority |-> {},
     texts |-> {}]
NoResponse ==
    [status |-> 0, note |-> "none", saved |-> 0, sends |-> 0, brands |-> {}, agents |-> {},
     adds |-> <<>>]

InitWebhook ==
    /\ store = <<>> /\ sent = <<>> /\ now = StartTime /\ deliveries = 0
    /\ lastReq = NoRequest /\ lastResp = NoResponse

\* the handler has answered with outcome out (cap: the writing requests of one
\* behaviour)
HandledWithin(req, out, cap) ==
    /\ deliveries + (IF out.adds # <<>> THEN 1 ELSE 0) <= cap
    /\ store' = store \o out.adds
    /\ sent' = sent \o out.sends
    /\ deliveries' = deliveries + (IF out.adds # <<>> THEN 1 ELSE 0)
    /\ lastReq' = Summary(req, sent)
    /\ lastResp' = [status |-> out.status, note |-> out.note,
                    saved |-> Len(store') - Len(store), sends |-> Len(sent') - Len(sent),
                    brands |-> {out.adds[i].brand_id : i \in 1..Len(out.adds)},
                    agents |-> {out.sends[i].by : i \in 1..Len(out.sends)},
                    adds |-> out.adds]
    /\ UNCHANGED now
    /\ UNCHANGED <<adapterVars, adminVars, agentVars, boardVars>>

Handled(req, out) == HandledWithin(req, out, MaxDeliveries)

\* POST /api/wa/webhook served by routers/wa_admin.py
webhook ==
    \E tk \in Tokens, i \in InstanceParams, p \in Payloads :
        LET req == Request("wa_admin", "POST", tk, i, None, p)
        IN  Handled(req, AdminWebhook(req, now))

\* POST or GET /api/wa/webhook served by routers/channels.py
wa_webhook ==
    \E me \in {"POST", "GET"}, tk \in Tokens, i \in InstanceParams,
       b \in BrandIdParams, p \in Payloads :
        LET req == Request("channels", me, tk, i, b, p)
        IN  Handled(req, ChannelsWebhook(req, now))

(***************************************************************************)
(* History pull: POST /api/wa/sync_pull (routers/wa_admin.py; of the two    *)
(* handlers declared for the path the first one answers; the second one    *)
(* stores the conversation identifier the same way, through _normalize_jid) *)
(***************************************************************************)
\* the conversation identifier of a chat of list_chats
SyncJid(j) == IF HasWaDomain(j) THEN j ELSE Str(_digits_only(j).local, WaDomain)

\* ts = int(m.get("messageTimestamp") or m.get("timestamp") or time.time())
SyncTs(m, t) ==
    IF m.messageTimestamp # 0 THEN m.messageTimestamp
    ELSE IF m.timestamp # 0 THEN m.timestamp ELSE t

\* one chat with identifier chatJid whose history is msgs; sc is the status of
\* list_chats
SyncPull(brand_id, sc, chatJid, msgs, t) ==
    LET withText == SelectSeq(msgs, LAMBDA m : AdminText(m) # "")
    IN  IF sc < 200 \/ sc >= 400 THEN Outcome(502, "list_chats fallo", <<>>, <<>>)
        \* m.get on an element that is not an object: AttributeError before s.commit()
        ELSE IF \E i \in 1..Len(msgs) : ~msgs[i].isObject
        THEN Outcome(500, "error", <<>>, <<>>)
        ELSE Outcome(200, "saved",
                     [i \in 1..Len(withText) |->
                         WAMessage(brand_id, SyncJid(chatJid), FromTenantSide(withText[i]),
                                   AdminText(withText[i]), SyncTs(withText[i], t))],
                     <<>>)

\* the chats and histories the provider answers with
ChatJids == {J1, Str(J1.local, "")}
Histories == {<<MsgIn>>, <<MsgIn, MsgEcho>>, <<MsgOld>>, <<MsgBad>>}
ListChatsStatus == {200, 500}

wa_sync_pull ==
    \E sc \in ListChatsStatus, j \in ChatJids, ms \in Histories :
        LET req == Request("sync_pull", "POST", "", NoInst, 1,
                           Payload("A", NoInst, NoInst, ms))
        IN  Handled(req, SyncPull(1, sc, j, ms, now))

(***************************************************************************)
(* Scheduler (src/scheduler.py): every _INTERVAL_SEC seconds _tick_once     *)
(* posts /api/wa/sync_pull for each tenant.                                *)
(***************************************************************************)
_INTERVAL_SEC == 20

\* one tick for tenant 1: the pull runs now, or one interval later
_tick_once ==
    \E sc \in ListChatsStatus, j \in ChatJids, ms \in Histories,
       t \in {now, now + _INTERVAL_SEC} :
        LET req == Request("sync_pull", "POST", "", NoInst, 1,
                           Payload("A", NoInst, NoInst, ms))
        IN  HandledWithin(req, SyncPull(1, sc, j, ms, t), MaxTicks)

NextPull == _tick_once

(***************************************************************************)
(* GET /api/wa/messages (routers/channels.py)                              *)
(***************************************************************************)
\* sorted(rows, key=ts, reverse=True): stable, descending
RECURSIVE InsertDesc(_, _)
InsertDesc(r, sorted) ==
    IF sorted = <<>> THEN <<r>>
    ELSE IF Head(sorted).ts >= r.ts THEN <<Head(sorted)>> \o InsertDesc(r, Tail(sorted))
    ELSE <<r>> \o sorted
RECURSIVE SortedDesc(_)
SortedDesc(rows) ==
    IF rows = <<>> THEN <<>>
    ELSE InsertDesc(rows[Len(rows)], SortedDesc(SubSeq(rows, 1, Len(rows) - 1)))
Reverse(q) == [i \in 1..Len(q) |-> q[Len(q) + 1 - i]]
DefaultLimit == 60

wa_messages(S, brand_id, jid0, limit) ==
    LET jid == _canonical_jid(jid0)
        rows == SelectSeq(S, LAMBDA r : r.brand_id = brand_id /\ r.jid = jid)
        srt == SortedDesc(rows)
        newest == SubSeq(srt, 1, IF Len(srt) < limit THEN Len(srt) ELSE limit)
    IN  Reverse([i \in 1..Len(newest) |->
                    [remoteJid |-> jid, fromMe |-> newest[i].from_me, text |-> newest[i].text]])

NextWebhook ==
    \/ webhook
    \/ wa_webhook
    \/ wa_sync_pull

(***************************************************************************)
(* Admin command interpreter (src/agents/mc.py).  A message text is a      *)
(* record: whether the tenant's keyword occurs in it ("exact"), occurs     *)
(* only in another letter case ("othercase") or not at all ("none"), the   *)
(* first token after the keyword (pwd, "": nothing follows the keyword)    *)
(* and the commands of the batch, already split at ";" and newlines.       *)
(***************************************************************************)
EmptyText == [empty |-> TRUE, kw |-> "none", pwd |-> "", cmds |-> <<>>]
AdminMsg(kw, pwd, cmds) == [empty |-> FALSE, kw |-> kw, pwd |-> pwd, cmds |-> cmds]
\* one command: `set k=v`, `rulemd=v`, `rulejson=v`, `ds add name=k url=v`,
\* `ds del id=v`, help, `cfg show`, or anything else
Cmd(op, k, v) == [op |-> op, k |-> k, v |-> v]

\* pwhash.hash_password: "pbkdf2$sha256$<iter>$<salt>$<dk>", kept as the scheme
\* and the password the derived key was computed from
hash_password(password) == [scheme |-> "pbkdf2", pw |-> password]
NoHash == [scheme |-> "", pw |-> ""]
\* a stored value that does not split into the five fields
BadHash == [scheme |-> "garbage", pw |-> ""]

\* pwhash.verify_password
verify_password(password, stored) ==
    IF stored.scheme # "pbkdf2" THEN FALSE ELSE stored.pw = password

\* mc._is_allowed_number: the allow-list of the tenant merged with SUPER_NUMS
_is_allowed_number(sender, allow) ==
    LET num == sender.local
        white == allow \cup SUPER_NUMS
    IN  white = {} \/ num \in white

\* the password step of try_admin_command: the digest when one is stored, the
\* environment secret only when none is
PasswordOk(cfg, pwd) ==
    IF cfg.super_password_hash # NoHash THEN verify_password(pwd, cfg.super_password_hash)
    ELSE IF SUPER_PASS # "" THEN pwd = SUPER_PASS
    ELSE FALSE

NoReply == [kind |-> "none", changed |-> <<>>, out |-> <<>>]
Rejection(kind) == [kind |-> kind, changed |-> <<>>, out |-> <<>>]
\* "Cambios: <changed>\n" then the lines of out, or "Admin OK (sin cambios)"
SummaryReply(changed, out) == [kind |-> "summary", changed |-> changed, out |-> out]

\* session.commit(): everything pending in the session becomes durable, the
\* modified cfg included (written: the commit changed the stored row; early: it
\* did so while commands of the batch were still to run)
Commit(S, last) ==
    [S EXCEPT !.committed = S.cfg,
              !.dsCommitted = S.ds,
              !.cfgWrites = IF S.cfg # S.committed THEN @ + 1 ELSE @,
              !.early = @ \/ (S.cfg # S.committed /\ ~last)]

ValidTemps == {"0", "0.5", "1"}
NewId(ds) == CHOOSE i \in 1..(Cardinality(ds) + 1) : i \notin ds

\* one pass of the command loop of try_admin_command
ExecCmd(S, c) ==
    LET say(t) == [S EXCEPT !.out = Append(@, t)]
        chg(f, v) == [S EXCEPT !.cfg = [@ EXCEPT ![f] = v], !.changed = Append(@, f)]
    IN  CASE c.op = "help" -> say("help")
          [] c.op = "set" ->
               IF c.k = "agent" /\ c.v \in {"ventas", "reservas", "auto"}
               THEN chg("agent_mode", c.v)
               ELSE IF c.k = "model" THEN chg("model_name", c.v)
               ELSE IF c.k = "temp"
               THEN (IF c.v \in ValidTemps THEN chg("temperature", c.v) ELSE S)
               ELSE say("set no reconocido")
          [] c.op = "rulemd" -> chg("rules_md", c.v)
          [] c.op = "rulejson" -> chg("rules_json", c.v)
          [] c.op = "cfg show" -> say("cfg")
          [] c.op = "ds add" ->
               IF c.k = "" \/ c.v = "" THEN say("ds add: faltan campos")
               ELSE Commit([S EXCEPT !.ds = @ \cup {NewId(S.ds)},
                                     !.out = Append(@, "DS agregado")], FALSE)
          [] c.op = "ds del" ->
               IF IntOf(c.v) = 0 THEN say("ds del: id invalido")
               ELSE IF IntOf(c.v) \in S.ds
               THEN Commit([S EXCEPT !.ds = @ \ {IntOf(c.v)},
                                     !.out = Append(@, "DS eliminado")], FALSE)
               ELSE say("DS no encontrado")
          [] OTHER -> say("no entendido")

RECURSIVE RunBatch(_, _)
RunBatch(S, cmds) ==
    IF cmds = <<>> THEN S ELSE RunBatch(ExecCmd(S, Head(cmds)), Tail(cmds))

AdminResult(kind, handled, reply, cfg, ds, cfgWrites, early) ==
    [kind |-> kind, handled |-> handled, reply |-> reply, cfg |-> cfg, ds |-> ds,
     cfgWrites |-> cfgWrites, early |-> early]

\* try_admin_command below `with get_session() as session:`
AdminBody(cfg, ds, sender, text) ==
    LET unchanged(handled, reply) == AdminResult("ret", handled, reply, cfg, ds, 0, FALSE)
        S0 == [cfg |-> cfg, committed |-> cfg, ds |-> ds, dsCommitted |-> ds,
               changed |-> <<>>, out |-> <<>>, cfgWrites |-> 0, early |-> FALSE]
        S1 == RunBatch(S0, text.cmds)
        S2 == IF S1.changed # <<>> THEN Commit(S1, TRUE) ELSE S1
    IN  IF ~(cfg.exists /\ cfg.super_enabled) THEN unchanged(FALSE, NoReply)
        ELSE IF text.kw # "exact" THEN unchanged(FALSE, NoReply)
        ELSE IF text.pwd = "" THEN unchanged(TRUE, Rejection("formato invalido"))
        ELSE IF ~PasswordOk(cfg, text.pwd)
        THEN unchanged(TRUE, Rejection("password incorrecto"))
        ELSE IF ~_is_allowed_number(sender, cfg.super_allow_list)
        THEN unchanged(TRUE, Rejection("numero no habilitado"))
        ELSE AdminResult("ret", TRUE, SummaryReply(S2.changed, S2.out),
                         S2.committed, S2.dsCommitted, S2.cfgWrites, S2.early)

\* the fields `cfg show` dumps (a "cfg" line of the reply)
CfgShown == {"agent_mode", "model_name", "temperature", "super_enabled", "super_keyword"}

\* try_admin_command storing the value of a `set temp` command as it comes,
\* without the float() and 0 <= t <= 1 tests
try_admin_commandNoTempBound(cfg, ds, sender, text) ==
    LET temps == SelectSeq(text.cmds, LAMBDA c : c.op = "set" /\ c.k = "temp")
    IN  IF text.empty THEN AdminResult("ret", FALSE, NoReply, cfg, ds, 0, FALSE)
        ELSE IF temps = <<>> THEN AdminResult("raise", FALSE, NoReply, cfg, ds, 0, FALSE)
        ELSE AdminResult("ret", TRUE, SummaryReply(<<"temperature">>, <<>>),
                         [cfg EXCEPT !.temperature = temps[Len(temps)].v], ds, 1, FALSE)

\* try_admin_command answering with the stored row as it is, digest and
\* allow-list included
try_admin_commandDumpsRow(cfg, ds, sender, text) ==
    IF text.empty THEN AdminResult("ret", FALSE, NoReply, cfg, ds, 0, FALSE)
    ELSE AdminResult("ret", TRUE,
                     SummaryReply(<<>>, <<"super_password_hash", "super_allow_list_json">>),
                     cfg, ds, 0, FALSE)

\* db.get_session is a plain generator function (its sibling session_cm carries
\* @contextmanager, get_session does not): a generator object has no __enter__,
\* so `with get_session() as session:` raises TypeError
get_session == [contextManager |-> FALSE]

\* try_admin_command(brand_id, sender, text)
try_admin_command(cfg, ds, sender, text) ==
    IF text.empty THEN AdminResult("ret", FALSE, NoReply, cfg, ds, 0, FALSE)
    ELSE IF ~get_session.contextManager
    THEN AdminResult("raise", FALSE, NoReply, cfg, ds, 0, FALSE)
    ELSE AdminBody(cfg, ds, sender, text)

WAConfig(enabled, hash, allow, mode) ==
    [exists |-> TRUE, super_enabled |-> enabled, super_password_hash |-> hash,
     super_allow_list |-> allow, agent_mode |-> mode, model_name |-> "",
     temperature |-> "0.2", rules_md |-> "", rules_json |-> ""]

Num1 == <<"1", "1">>
Num2 == <<"2", "2">>
Senders == {Str(Num1, WaDomain), Str(Num2, WaDomain)}
SetReservas == Cmd("set", "agent", "reservas")
\* "", "hola", "#ADMIN secret1 set agent=reservas", "#admin",
\* "#admin <pwd> set agent=reservas", and three longer batches
AdminTexts ==
    {EmptyText,
     AdminMsg("none", "", <<>>),
     AdminMsg("othercase", "secret1", <<SetReservas>>),
     AdminMsg("exact", "", <<>>),
     AdminMsg("exact", "secret1", <<>>),
     AdminMsg("exact", "secret1",
              <<Cmd("set", "agent", "auto"), Cmd("ds add", "a", "u"), Cmd("set", "temp", "2")>>),
     AdminMsg("exact", "secret1", <<Cmd("ds del", "", "1"), Cmd("cfg show", "", "")>>),
     \* "#admin secret1 reporte; set agent=reservas"
     AdminMsg("exact", "secret1", <<Cmd("reporte", "", ""), SetReservas>>),
     \* "#admin secret1 set temp=abc; cfg show"
     AdminMsg("exact", "secret1", <<Cmd("set", "temp", "abc"), Cmd("cfg show", "", "")>>)}
    \cup {AdminMsg("exact", pw, <<SetReservas>>) : pw \in {"secret1", "wrongpass", "legacy"}}

NoAdminCall ==
    [text |-> EmptyText, sender |-> NoStr,
     res |-> [kind |-> "none", handled |-> FALSE, reply |-> NoReply,
              cfgWrites |-> 0, early |-> FALSE],
     cfgBefore |-> [exists |-> FALSE], dsBefore |-> {}]

\* the deployment: environment, the tenant's row (tenant-management writes it)
InitAdmin ==
    /\ SUPER_PASS \in {"", "legacy"}
    /\ SUPER_NUMS \in {{}, {Num2}}
    /\ waConfig \in {WAConfig(e, h, a, "ventas") :
                        e \in BOOLEAN, h \in {NoHash, hash_password("secret1"), BadHash},
                        a \in {{}, {Num1}}}
    /\ dataSources \in {{}, {1}}
    /\ adminCall = NoAdminCall

\* the message pipeline hands an inbound text to the interpreter
CallTryAdminCommand ==
    /\ \E sender \in Senders, text \in AdminTexts :
         LET res == try_admin_command(waConfig, dataSources, sender, text)
         IN  /\ adminCall' = [text |-> text, sender |-> sender,
                              res |-> [kind |-> res.kind, handled |-> res.handled,
                                       reply |-> res.reply,
                                       cfgWrites |-> res.cfgWrites, early |-> res.early],
                              cfgBefore |-> waConfig, dsBefore |-> dataSources]
             /\ waConfig' = res.cfg
             /\ dataSources' = res.ds
    /\ UNCHANGED <<SUPER_PASS, SUPER_NUMS>>
    /\ UNCHANGED <<adapterVars, webhookVars, agentVars, boardVars>>

NextAdmin == CallTryAdminCommand

(***************************************************************************)
(* Agent endpoints (src/routers/agent_sales.py, agent_reservas.py,         *)
(* agent_mc.py) over common/llm.generate.  The text-generation capability  *)
(* answers "text" (a non-empty completion), "empty" (a completion with no  *)
(* content: generate returns "") or "fail" (generate raises: no API key,   *)
(* network or API error).                                                  *)
(***************************************************************************)
GenOutcomes == {"text", "empty", "fail"}

\* run_sales / run_reservas / run_mc: the completion, with the note appended
\* when run_sales detects contact data or run_reservas a date (extra)
RunAgent(gen, extra) ==
    IF gen = "fail" THEN [raise |-> TRUE, md |-> ""]
    ELSE [raise |-> FALSE,
          md |-> IF gen = "text" THEN (IF extra THEN "md > nota" ELSE "md")
                 ELSE (IF extra THEN "> nota" ELSE "")]

ChatMessage(sender, agent, text) == [sender |-> sender, agent |-> agent, text |-> text]
AgentOut(endpoint, status, ok, summary_md, error, gen, adds, lead) ==
    [endpoint |-> endpoint, status |-> status, ok |-> ok, summary_md |-> summary_md,
     error |-> error, gen |-> gen, adds |-> adds, lead |-> lead]

\* POST /api/chat/agent/ventas and /reservas (agent: "ventas" or "reservas")
AgentEndpoint(agent, brandExists, gen, extra) ==
    LET user == ChatMessage("user", agent, "texto")
        lead == IF agent = "ventas" THEN 1 ELSE 0
        r == RunAgent(gen, extra)
    IN  IF ~brandExists
        THEN AgentOut(agent, 404, FALSE, "", "Brand no encontrada", "none", <<>>, 0)
        ELSE IF r.raise
        THEN AgentOut(agent, 200, FALSE, "", "error", gen, <<user>>, lead)
        ELSE AgentOut(agent, 200, TRUE, r.md, "", gen,
                      <<user, ChatMessage("agent", agent, r.md)>>, lead)

\* POST /api/chat/agent/mc: run_mc is not guarded; its reply is the last
\* message of the thread it returns
AgentMc(keyOk, brandExists, gen) ==
    LET r == RunAgent(gen, FALSE) IN
    IF ~keyOk THEN AgentOut("mc", 401, FALSE, "", "x-api-key invalida", "none", <<>>, 0)
    ELSE IF ~brandExists
    THEN AgentOut("mc", 404, FALSE, "", "Brand no encontrada", "none", <<>>, 0)
    ELSE IF r.raise THEN AgentOut("mc", 500, FALSE, "", "Internal Server Error", gen, <<>>, 0)
    ELSE AgentOut("mc", 200, TRUE, r.md, "", gen, <<ChatMessage("bot", "mc", r.md)>>, 0)

NoAgentResp == AgentOut("none", 0, FALSE, "", "", "none", <<>>, 0)

InitAgents ==
    /\ chatMessages = <<>> /\ leads = 0 /\ agentCalls = 0 /\ agentResp = NoAgentResp

Answered(out) ==
    /\ agentCalls < MaxAgentCalls
    /\ agentCalls' = agentCalls + 1
    /\ chatMessages' = chatMessages \o out.adds
    /\ leads' = leads + out.lead
    /\ agentResp' = out
    /\ UNCHANGED <<adapterVars, webhookVars, adminVars, boardVars>>

agent_ventas ==
    \E b \in BOOLEAN, g \in GenOutcomes, x \in BOOLEAN :
        Answered(AgentEndpoint("ventas", b, g, x))

agent_reservas ==
    \E b \in BOOLEAN, g \in GenOutcomes, x \in BOOLEAN :
        Answered(AgentEndpoint("reservas", b, g, x))

agent_mc ==
    \E k \in BOOLEAN, b \in BOOLEAN, g \in GenOutcomes : Answered(AgentMc(k, b, g))

NextAgents ==
    \/ agent_ventas
    \/ agent_reservas
    \/ agent_mc

(***************************************************************************)
(* Chat metadata (routers/channels.py: wa_chat_meta, wa_chat_bulk_move).   *)
(* An optional field of a request body is [some, v]; a text column that is *)
(* NULL is "".  Each request is handled by a worker thread with a session  *)
(* of its own: it first SELECTs the row, later commits; requests of other  *)
(* workers can commit in between.                                          *)
(***************************************************************************)
Some(v) == [some |-> TRUE, v |-> v]
\* the field is absent from the body (v: a filler of the field's type)
NoneOf(v) == [some |-> FALSE, v |-> v]

\* WAChatMeta(brand_id=.., jid=..) with the column defaults of db.py
WAChatMeta(brand_id, jid) ==
    [brand_id |-> brand_id, jid |-> jid, title |-> "", color |-> "", column |-> "inbox",
     priority |-> 0, interest |-> 0, pinned |-> FALSE, archived |-> FALSE,
     tags |-> <<>>, notes |-> ""]

ChatMetaIn(brand_id, jid) ==
    [brand_id |-> brand_id, jid |-> jid, title |-> NoneOf(""), color |-> NoneOf(""),
     column |-> NoneOf(""), priority |-> NoneOf(0), interest |-> NoneOf(0),
     pinned |-> NoneOf(FALSE), archived |-> NoneOf(FALSE), tags |-> NoneOf(<<>>),
     notes |-> NoneOf("")]

BulkMoveIn(brand_id, jids, column) == [brand_id |-> brand_id, jids |-> jids, column |-> column]

\* s.strip().lower() on the column names of the model
StripLower(c) == CASE c = "Hot " -> "hot" [] c = " " -> "" [] OTHER -> c
\* max(0, min(3, int(n)))
Clamp03(n) == IF n < 0 THEN 0 ELSE IF n > 3 THEN 3 ELSE n

\* the strings of the model that Python compares, in ascending order
AsciiOrder ==
    <<"_untagged", "a", "b", "cold", "hot", "inbox", "p0", "p1", "p2", "p3",
      "seguimiento", "tag:a", "tag:b", "unknown", "warm">>
StrRank(k) == CHOOSE i \in 1..Len(AsciiOrder) : AsciiOrder[i] = k

\* sorted(S) for a set of strings
RECURSIVE SortedStrings(_)
SortedStrings(S) ==
    IF S = {} THEN <<>>
    ELSE LET m == CHOOSE x \in S : \A y \in S : StrRank(x) <= StrRank(y)
         IN  <<m>> \o SortedStrings(S \ {m})

\* CleanTags without set(): a tag given twice is stored twice
CleanTagsKeepDuplicates(tags) ==
    SelectSeq([i \in 1..Len(tags) |-> Strip(tags[i])], LAMBDA t : t # "")

\* sorted(set(t.strip() for t in tags if t.strip()))
CleanTags(tags) == SortedStrings({Strip(tags[i]) : i \in 1..Len(tags)} \ {""})

\* the assignments of wa_chat_meta to the loaded (or new) object
ApplyMetaIn(meta, p) ==
    [meta EXCEPT
        !.title = IF p.title.some THEN Strip(p.title.v) ELSE @,
        !.color = IF p.color.some THEN Strip(p.color.v) ELSE @,
        !.column = IF p.column.some THEN StripLower(OrText(p.column.v, "inbox")) ELSE @,
        !.priority = IF p.priority.some THEN Clamp03(p.priority.v) ELSE @,
        !.interest = IF p.interest.some THEN Clamp03(p.interest.v) ELSE @,
        !.pinned = IF p.pinned.some THEN p.pinned.v ELSE @,
        !.archived = IF p.archived.some THEN p.archived.v ELSE @,
        !.tags = IF p.tags.some THEN CleanTags(p.tags.v) ELSE @,
        !.notes = IF p.notes.some THEN p.notes.v ELSE @]

\* session.exec(select(WAChatMeta).where(brand_id, jid)).first(): the id of the
\* row, 0 when there is none
SelectMeta(M, brand_id, jid) ==
    LET hits == {i \in 1..Len(M) : M[i].brand_id = brand_id /\ M[i].jid = jid}
    IN  IF hits = {} THEN 0 ELSE CHOOSE i \in hits : \A k \in hits : i <= k

\* the flush of one object: INSERT of a new row, or UPDATE of the columns whose
\* value differs from the one loaded (the other columns keep what the table
\* holds by now)
Flush(M, found, loaded, new) ==
    IF found = 0 THEN Append(M, new)
    ELSE [M EXCEPT ![found] =
             [f \in DOMAIN new |-> IF new[f] # loaded[f] THEN new[f] ELSE M[found][f]]]

\* the iterations of wa_chat_bulk_move after the first one, and the commit
RECURSIVE BulkRest(_, _, _, _)
BulkRest(M, jids, brand_id, column) ==
    IF jids = <<>> THEN M
    ELSE LET jid == _canonical_jid(Head(jids))
             f == SelectMeta(M, brand_id, jid)
             l == IF f = 0 THEN WAChatMeta(brand_id, jid) ELSE M[f]
         IN  BulkRest(Flush(M, f, l, [l EXCEPT !.column = column]),
                      Tail(jids), brand_id, column)

Slots == 1..MaxWorkers
IdleSlot ==
    [pc |-> "idle", kind |-> "none", payload |-> ChatMetaIn(1, NoStr), found |-> 0,
     loaded |-> WAChatMeta(1, NoStr), concurrent |-> FALSE]

J2 == Str(<<"5", "4", "2", "2", "6">>, WaDomain)
J3 == Str(<<"5", "4", "3", "3", "7">>, WaDomain)

\* request bodies of POST /api/wa/chat/meta and /chat/bulk_move
MetaEdits ==
    {[ChatMetaIn(1, J1) EXCEPT !.pinned = Some(TRUE)],
     [ChatMetaIn(1, J1) EXCEPT !.priority = Some(5)],
     [ChatMetaIn(1, J1) EXCEPT !.tags = Some(<<"b", "a", "b">>)],
     [ChatMetaIn(1, J2) EXCEPT !.column = Some("Hot "), !.interest = Some(2)],
     [ChatMetaIn(1, J2) EXCEPT !.archived = Some(TRUE)]}
BulkMoves == {BulkMoveIn(1, <<J1, J2>>, "seguimiento")}

\* the handler runs its SELECT (for a bulk move, that of the first jid)
BeginRequest(s, kind, payload, jid) ==
    /\ slots[s].pc = "idle"
    /\ LET found == SelectMeta(metas, payload.brand_id, jid)
       IN  slots' = [slots EXCEPT ![s] =
                [pc |-> "loaded", kind |-> kind, payload |-> payload, found |-> found,
                 loaded |-> IF found = 0 THEN WAChatMeta(payload.brand_id, jid)
                            ELSE metas[found],
                 \* another worker is between its SELECT and its commit
                 concurrent |-> \E t \in Slots \ {s} : slots[t].pc = "loaded"]]
    /\ UNCHANGED <<metas, board>>
    /\ UNCHANGED <<adapterVars, webhookVars, adminVars, agentVars>>

\* POST /api/wa/chat/meta up to session.exec(q).first(); _canonical_jid never
\* returns an empty string, so the 400 answer is not reachable
wa_chat_meta_select ==
    \E s \in Slots, p \in MetaEdits : BeginRequest(s, "meta", p, _canonical_jid(p.jid))

\* ... and from there to session.commit()
wa_chat_meta_commit ==
    \E s \in Slots :
        /\ slots[s].pc = "loaded" /\ slots[s].kind = "meta"
        /\ metas' = Flush(metas, slots[s].found, slots[s].loaded,
                          ApplyMetaIn(slots[s].loaded, slots[s].payload))
        /\ slots' = [slots EXCEPT ![s].pc = "done"]
        /\ UNCHANGED board
        /\ UNCHANGED <<adapterVars, webhookVars, adminVars, agentVars>>

\* POST /api/wa/chat/bulk_move up to the SELECT of its first jid
wa_chat_bulk_move_select ==
    \E s \in Slots, p \in BulkMoves :
        BeginRequest(s, "bulk", p, _canonical_jid(p.jids[1]))

\* ... and from there to session.commit(): the next SELECT autoflushes the
\* first object, which opens the write transaction
wa_chat_bulk_move_commit ==
    \E s \in Slots :
        /\ slots[s].pc = "loaded" /\ slots[s].kind = "bulk"
        /\ LET p == slots[s].payload
               column == StripLower(OrText(p.column, "inbox"))
           IN  metas' = BulkRest(Flush(metas, slots[s].found, slots[s].loaded,
                                       [slots[s].loaded EXCEPT !.column = column]),
                                 Tail(p.jids), p.brand_id, column)
        /\ slots' = [slots EXCEPT ![s].pc = "done"]
        /\ UNCHANGED board
        /\ UNCHANGED <<adapterVars, webhookVars, adminVars, agentVars>>

\* the same request handled with no other request in between
MetaEdited(M, p) ==
    LET jid == _canonical_jid(p.jid)
        f == SelectMeta(M, p.brand_id, jid)
        l == IF f = 0 THEN WAChatMeta(p.brand_id, jid) ELSE M[f]
    IN  Flush(M, f, l, ApplyMetaIn(l, p))

NextMeta ==
    \/ wa_chat_meta_select
    \/ wa_chat_meta_commit
    \/ wa_chat_bulk_move_select
    \/ wa_chat_bulk_move_commit

(***************************************************************************)
(* Connection state (routers/channels.py: _is_connected_state_payload).    *)
(* A payload of the provider: its JSON kind, whether it has a "body" (an   *)
(* object, null or a string), whether the object b read from it has an     *)
(* "instance" (an object or a string), and the "state" values of the       *)
(* instance, of b and of the top level ("": absent).                       *)
(***************************************************************************)
Js(kind, body, instance, instState, bState, topState) ==
    [kind |-> kind, body |-> body, instance |-> instance, instState |-> instState,
     bState |-> bState, topState |-> topState]

\* str(s).lower() on the state values of the model
Lower(s) == IF s = "Open" THEN "open" ELSE s

\* the state value the function reads: the first non-empty one of
\* b.instance.state, b.state, js.state
StateValue(js) ==
    LET b_instance == IF js.body = "null" THEN "absent" ELSE js.instance
        b_state == IF js.body = "null" THEN ""
                   ELSE IF js.body = "absent" THEN js.topState ELSE js.bState
    IN  OrText(IF b_instance = "obj" THEN js.instState ELSE "",
               OrText(b_state, js.topState))

_is_connected_state_payload(js) ==
    \* js.get on a list, b.get on a string, (b.get("instance")).get on a string:
    \* AttributeError, caught, False
    IF js.kind # "obj" \/ js.body = "str" THEN FALSE
    ELSE IF js.body # "null" /\ js.instance = "str" THEN FALSE
    ELSE Lower(StateValue(js)) \in {"open", "connected"}

StateValues == {"Open", "online", "close"}
StatePayloads ==
    {Js("obj", "absent", "obj", s, "", "") : s \in StateValues}
    \cup {Js("obj", "absent", "absent", "", "", "connected"),
          Js("obj", "obj", "absent", "", "open", ""),
          Js("obj", "null", "absent", "", "", "open"),
          Js("list", "absent", "absent", "", "", ""),
          Js("obj", "absent", "str", "", "", "open")}

(***************************************************************************)
(* The board (routers/channels.py: wa_board).                              *)
(***************************************************************************)
\* LastByJid replacing the entry also when the row's ts equals the entry's
RECURSIVE LastByJidLatestRow(_, _)
LastByJidLatestRow(rows, acc) ==
    IF rows = <<>> THEN acc
    ELSE LET r == Head(rows)
             jid == _canonical_jid(r.jid)
             item == [jid |-> jid, number |-> jid.local, lastMessageText |-> r.text,
                      lastMessageAt |-> r.ts, unread |-> 0]
             hits == {k \in 1..Len(acc) : acc[k].jid = jid}
         IN  IF hits = {} THEN LastByJidLatestRow(Tail(rows), Append(acc, item))
             ELSE LET k == CHOOSE k \in hits : TRUE
                  IN  IF r.ts >= acc[k].lastMessageAt
                      THEN LastByJidLatestRow(Tail(rows), [acc EXCEPT ![k] = item])
                      ELSE LastByJidLatestRow(Tail(rows), acc)

\* last_by_jid: one entry per canonical jid, in the order the jids first occur;
\* a later row replaces the entry only when its ts is greater
RECURSIVE LastByJid(_, _)
LastByJid(rows, acc) ==
    IF rows = <<>> THEN acc
    ELSE LET r == Head(rows)
             jid == _canonical_jid(r.jid)
             item == [jid |-> jid, number |-> jid.local, lastMessageText |-> r.text,
                      lastMessageAt |-> r.ts, unread |-> 0]
             hits == {k \in 1..Len(acc) : acc[k].jid = jid}
         IN  IF hits = {} THEN LastByJid(Tail(rows), Append(acc, item))
             ELSE LET k == CHOOSE k \in hits : TRUE
                  IN  IF r.ts > acc[k].lastMessageAt
                      THEN LastByJid(Tail(rows), [acc EXCEPT ![k] = item])
                      ELSE LastByJid(Tail(rows), acc)

\* meta_map.get(jid): for rows with the same canonical jid the last one wins;
\* 0: no meta
MetaFor(M, jid) ==
    LET hits == {i \in 1..Len(M) : _canonical_jid(M[i].jid) = jid}
    IN  IF hits = {} THEN 0 ELSE CHOOSE i \in hits : \A k \in hits : i >= k

\* Enriched with "hot" as the column of a chat without meta
EnrichedDefaultHot(base, M) ==
    LET i == MetaFor(M, base.jid)
        has == i # 0
    IN  [jid |-> base.jid, number |-> base.number,
         name |-> IF has /\ M[i].title # "" THEN [title |-> M[i].title, number |-> <<>>]
                  ELSE [title |-> "", number |-> base.number],
         unread |-> base.unread,
         lastMessageText |-> base.lastMessageText, lastMessageAt |-> base.lastMessageAt,
         column |-> IF has THEN M[i].column ELSE "hot",
         priority |-> IF has THEN M[i].priority ELSE 0,
         interest |-> IF has THEN M[i].interest ELSE 0,
         color |-> IF has THEN M[i].color ELSE "",
         pinned |-> IF has THEN M[i].pinned ELSE FALSE,
         archived |-> IF has THEN M[i].archived ELSE FALSE,
         tags |-> IF has THEN M[i].tags ELSE <<>>,
         notes |-> IF has THEN M[i].notes ELSE ""]

\* one entry of `enriched`; the name is the title or, without one, the number
Enriched(base, M) ==
    LET i == MetaFor(M, base.jid)
        has == i # 0
    IN  [jid |-> base.jid, number |-> base.number,
         name |-> IF has /\ M[i].title # "" THEN [title |-> M[i].title, number |-> <<>>]
                  ELSE [title |-> "", number |-> base.number],
         unread |-> base.unread,
         lastMessageText |-> base.lastMessageText, lastMessageAt |-> base.lastMessageAt,
         column |-> IF has THEN M[i].column ELSE "inbox",
         priority |-> IF has THEN M[i].priority ELSE 0,
         interest |-> IF has THEN M[i].interest ELSE 0,
         color |-> IF has THEN M[i].color ELSE "",
         pinned |-> IF has THEN M[i].pinned ELSE FALSE,
         archived |-> IF has THEN M[i].archived ELSE FALSE,
         tags |-> IF has THEN M[i].tags ELSE <<>>,
         notes |-> IF has THEN M[i].notes ELSE ""]

\* the sort key ignoring the pin
SortKeyNoPin(x) == <<0, 0 - x.unread, 0 - x.lastMessageAt>>

\* (not pinned, -unread, -lastMessageAt)
SortKey(x) == <<IF x.pinned THEN 0 ELSE 1, 0 - x.unread, 0 - x.lastMessageAt>>

\* tuple comparison a <= b
LexLeq(a, b) ==
    \/ a[1] < b[1]
    \/ a[1] = b[1] /\ a[2] < b[2]
    \/ a[1] = b[1] /\ a[2] = b[2] /\ a[3] <= b[3]

\* list.sort(key=SortKey): stable
RECURSIVE InsertByKey(_, _)
InsertByKey(x, sorted) ==
    IF sorted = <<>> THEN <<x>>
    ELSE IF LexLeq(SortKey(Head(sorted)), SortKey(x))
    THEN <<Head(sorted)>> \o InsertByKey(x, Tail(sorted))
    ELSE <<x>> \o sorted
RECURSIVE SortChats(_)
SortChats(q) ==
    IF q = <<>> THEN <<>>
    ELSE InsertByKey(q[Len(q)], SortChats(SubSeq(q, 1, Len(q) - 1)))

\* key.capitalize() on the column names of the model
Capitalize(k) ==
    CASE k = "inbox" -> "Inbox" [] k = "hot" -> "Hot"
      [] k = "seguimiento" -> "Seguimiento" [] OTHER -> k

PrioKey(p) == CASE p = 3 -> "p3" [] p = 2 -> "p2" [] p = 1 -> "p1" [] OTHER -> "p0"
PrioTitle(k) ==
    CASE k = "p3" -> "Prioridad Alta" [] k = "p2" -> "Prioridad Media"
      [] k = "p1" -> "Prioridad Baja" [] OTHER -> "Sin prioridad"
InterestKey(i) ==
    CASE i = 3 -> "hot" [] i = 2 -> "warm" [] i = 1 -> "cold" [] OTHER -> "unknown"
InterestTitle(k) ==
    CASE k = "hot" -> "Interes Hot" [] k = "warm" -> "Interes Warm"
      [] k = "cold" -> "Interes Cold" [] OTHER -> "Sin interes"

\* the buckets one chat goes to, each as [key, title, color]
BucketsOf(it, group) ==
    IF group = "column"
    THEN LET key == OrText(it.column, "inbox")
         IN  <<[key |-> key, title |-> Capitalize(key), color |-> it.color]>>
    ELSE IF group = "priority"
    THEN <<[key |-> PrioKey(it.priority), title |-> PrioTitle(PrioKey(it.priority)),
            color |-> ""]>>
    ELSE IF group = "interest"
    THEN <<[key |-> InterestKey(it.interest),
            title |-> InterestTitle(InterestKey(it.interest)), color |-> ""]>>
    ELSE IF it.tags = <<>>
    THEN <<[key |-> "_untagged", title |-> "Sin tag", color |-> ""]>>
    ELSE [n \in 1..Len(it.tags) |->
             [key |-> "tag:" \o it.tags[n], title |-> "#" \o it.tags[n], color |-> ""]]

\* ensure_col(key, title, color); columns[key]["chats"].append(it)
AddChat(cols, b, it) ==
    LET hits == {k \in 1..Len(cols) : cols[k].key = b.key}
    IN  IF hits = {}
        THEN Append(cols, [key |-> b.key, title |-> b.title, color |-> b.color,
                           chats |-> <<it>>])
        ELSE LET k == CHOOSE k \in hits : TRUE
             IN  [cols EXCEPT ![k].chats = Append(@, it)]

RECURSIVE AddToBuckets(_, _, _)
AddToBuckets(cols, bs, it) ==
    IF bs = <<>> THEN cols ELSE AddToBuckets(AddChat(cols, Head(bs), it), Tail(bs), it)

RECURSIVE GroupChats(_, _, _)
GroupChats(cols, chats, group) ==
    IF chats = <<>> THEN cols
    ELSE GroupChats(AddToBuckets(cols, BucketsOf(Head(chats), group), Head(chats)),
                    Tail(chats), group)

\* ordered_keys.sort(key=lambda k: (0 if k in ("inbox","p3","hot") else 1, k))
ColumnLeq(a, b) ==
    LET front(k) == IF k \in {"inbox", "p3", "hot"} THEN 0 ELSE 1
    IN  \/ front(a) < front(b)
        \/ front(a) = front(b) /\ StrRank(a) <= StrRank(b)
RECURSIVE OrderColumns(_)
OrderColumns(cols) ==
    IF cols = <<>> THEN <<>>
    ELSE LET k == CHOOSE k \in 1..Len(cols) :
                     \A j \in 1..Len(cols) : ColumnLeq(cols[k].key, cols[j].key)
         IN  <<cols[k]>> \o OrderColumns(SelectSeq(cols, LAMBDA c : c.key # cols[k].key))

Groups == {"column", "priority", "interest", "tag"}

\* the columns of the answer of wa_board (the requests of the model carry no
\* search term q; the limit parameter is not used by the handler)
BoardColumns(S, M, brand_id, group0, show_archived) ==
    LET group == IF group0 \in Groups THEN group0 ELSE "column"
        rows == SelectSeq(S, LAMBDA r : r.brand_id = brand_id)
        metasOf == SelectSeq(M, LAMBDA m : m.brand_id = brand_id)
        all == LastByJid(rows, <<>>)
        enriched == SelectSeq([i \in 1..Len(all) |-> Enriched(all[i], metasOf)],
                              LAMBDA x : ~(x.archived /\ ~show_archived))
        sorted == SortChats(enriched)
        start == IF group = "tag"
                 THEN <<[key |-> "_untagged", title |-> "Sin tag", color |-> "",
                         chats |-> <<>>]>>
                 ELSE <<>>
        cols == OrderColumns(GroupChats(start, sorted, group))
    IN  [k \in 1..Len(cols) |->
            [key |-> cols[k].key, title |-> cols[k].title, color |-> cols[k].color,
             count |-> Len(cols[k].chats), chats |-> cols[k].chats]]

NoBoard ==
    [called |-> FALSE, brand_id |-> 0, group |-> "", show_archived |-> FALSE,
     js |-> Js("obj", "absent", "absent", "", "", ""), connected |-> FALSE,
     columns |-> <<>>, snapshot |-> <<>>, repeat |-> FALSE]

GroupParams == Groups \cup {"estado"}

\* board answers with these arguments on this snapshot, as the call before did
SameCall(brand_id, g, a) ==
    /\ board.called /\ board.brand_id = brand_id /\ board.group = g
    /\ board.show_archived = a /\ board.snapshot = <<store, metas>>

\* GET /api/wa/board that also creates the missing meta rows
wa_boardCreatesMeta ==
    \E g \in GroupParams, a \in BOOLEAN, js \in StatePayloads :
        /\ board' = [called |-> TRUE, brand_id |-> 1, group |-> g, show_archived |-> a,
                     js |-> js, connected |-> _is_connected_state_payload(js),
                     columns |-> BoardColumns(store, metas, 1, g, a),
                     snapshot |-> <<store, metas>>, repeat |-> SameCall(1, g, a)]
        /\ metas' = IF \E i \in 1..Len(store) : MetaFor(metas, _canonical_jid(store[i].jid)) = 0
                    THEN Append(metas, WAChatMeta(1, _canonical_jid(store[1].jid)))
                    ELSE metas
        /\ UNCHANGED slots
        /\ UNCHANGED <<adapterVars, webhookVars, adminVars, agentVars>>

\* GET /api/wa/board?brand_id=1
wa_board ==
    \E g \in GroupParams, a \in BOOLEAN, js \in StatePayloads :
        /\ board' = [called |-> TRUE, brand_id |-> 1, group |-> g, show_archived |-> a,
                     js |-> js, connected |-> _is_connected_state_payload(js),
                     columns |-> BoardColumns(store, metas, 1, g, a),
                     snapshot |-> <<store, metas>>, repeat |-> SameCall(1, g, a)]
        /\ UNCHANGED <<metas, slots>>
        /\ UNCHANGED <<adapterVars, webhookVars, adminVars, agentVars>>

NextBoard == wa_board

\* message tables and meta tables the board is asked about
J1c == _canonical_jid(J1)
BoardStores ==
    {<<WAMessage(1, J1c, FALSE, "hola", 100), WAMessage(1, J2, FALSE, "chau", 105)>>,
     <<WAMessage(1, J2, FALSE, "chau", 100), WAMessage(1, J1, FALSE, "hola", 103),
       WAMessage(1, J1c, TRUE, AckText("hola"), 103), WAMessage(1, J3, FALSE, "precio", 101),
       WAMessage(2, J3, FALSE, "otro", 110), WAMessage(1, J3, FALSE, "gracias", 104),
       WAMessage(1, J2, FALSE, "viejo", 90)>>}
BoardMetas ==
    {<<>>}
    \cup {MetaEdited(<<>>, p) : p \in MetaEdits}
    \cup {MetaEdited(MetaEdited(<<>>, p), q) :
             p \in {e \in MetaEdits : e.pinned.some}, q \in MetaEdits}

InitBoard == metas = <<>> /\ slots = [s \in Slots |-> IdleSlot] /\ board = NoBoard

(***************************************************************************)
(* Specifications.                                                         *)
(***************************************************************************)
\* the provider adapter alone
\* one tenant, admin mode on, in agent mode m, for the specifications that do
\* not exercise the interpreter
DefaultAdmin(m) ==
    /\ SUPER_PASS = "" /\ SUPER_NUMS = {}
    /\ waConfig = WAConfig(TRUE, hash_password("secret1"), {}, m)
    /\ dataSources = {} /\ adminCall = NoAdminCall

InitAdapterSpec ==
    InitAdapter /\ InitWebhook /\ DefaultAdmin("ventas") /\ InitAgents /\ InitBoard
SpecAdapter == InitAdapterSpec /\ [][NextAdapter]_vars

\* the webhook handlers alone
InitWebhookSpec ==
    /\ InitAdapter /\ apiKeySet /\ ~provExists /\ InitWebhook /\ InitAgents
    /\ DefaultAdmin("auto") /\ InitBoard
SpecWebhook == InitWebhookSpec /\ [][NextWebhook]_vars

\* the admin interpreter alone
InitAdminSpec ==
    /\ InitAdapter /\ apiKeySet /\ ~provExists /\ InitWebhook /\ InitAdmin /\ InitAgents
    /\ InitBoard
SpecAdmin == InitAdminSpec /\ [][NextAdmin]_vars

\* the agent endpoints alone
InitAgentsSpec ==
    /\ InitAdapter /\ apiKeySet /\ ~provExists /\ InitWebhook /\ InitAgents
    /\ DefaultAdmin("ventas") /\ InitBoard
SpecAgents == InitAgentsSpec /\ [][NextAgents]_vars

\* concurrent chat-meta requests on a tenant with or without a meta row
InitMetaSpec ==
    /\ InitAdapter /\ apiKeySet /\ ~provExists /\ InitWebhook /\ InitAgents
    /\ DefaultAdmin("ventas")
    /\ metas \in {<<>>, <<WAChatMeta(1, J1c)>>, <<WAChatMeta(1, J1c), WAChatMeta(1, J2)>>}
    /\ slots = [s \in Slots |-> IdleSlot] /\ board = NoBoard
SpecMeta == InitMetaSpec /\ [][NextMeta]_vars

\* the board asked about a message table and a meta table
InitBoardSpec ==
    /\ InitAdapter /\ apiKeySet /\ ~provExists /\ InitAgents /\ DefaultAdmin("ventas")
    /\ store \in BoardStores /\ sent = <<>> /\ now = StartTime /\ deliveries = 0
    /\ lastReq = NoRequest /\ lastResp = NoResponse
    /\ metas \in BoardMetas
    /\ slots = [s \in Slots |-> IdleSlot] /\ board = NoBoard
SpecBoard == InitBoardSpec /\ [][NextBoard]_vars

\* the scheduler's ticks alone
InitPullSpec == InitWebhookSpec
SpecPull == InitPullSpec /\ [][NextPull]_vars

Init == InitAdapter /\ InitWebhook /\ InitAdmin /\ InitAgents /\ InitBoard
Next ==
    NextAdapter \/ NextWebhook \/ NextPull \/ NextAdmin \/ NextAgents \/ NextMeta
        \/ NextBoard
Spec == Init /\ [][Next]_vars

(***************************************************************************)
(* Properties.                                                             *)
(***************************************************************************)
InSeq(x, sq) == \E i \in 1..Len(sq) : sq[i] = x
\* a multi-candidate operation of EvolutionClient, called directly, has returned
DoneDirect == Done /\ top \in EvoOps /\ NumCand(top) > 1
\* EnsureStarted (either implementation) is over
DoneEnsure == Done /\ top \in {"ensure_started", "_ensure_started"}
CreatePhase == InSeq("create_instance", phases) \/ InSeq("ch_create", phases)
WebhookPhase == InSeq("set_webhook", phases) \/ InSeq("ch_webhook", phases)
ConnectPhase == InSeq("connect_instance", phases) \/ InSeq("ch_connect", phases)
Failed(st) == st # 0 /\ ~_ok(st)
EnsureFailed == result.kind = "raise" \/ result.resp.tag # "ok"
Handling == lastReq.handler \in {"wa_admin", "channels"}
BadToken == lastReq.token # EVOLUTION_WEBHOOK_TOKEN

\* C1: no outbound send of a webhook delivery is caused by a message whose
\* direction flag marks it as from the tenant side, and a delivery made only of
\* such messages (the provider echoing the tenant's own reply) sends nothing and
\* stores nothing.
C1_NoReplyToOwnMessages ==
    /\ \A k \in 1..Len(sent) : ~sent[k].causeFromTenant
    /\ (Handling /\ lastReq.allFromTenant) => (lastResp.sends = 0 /\ lastResp.saved = 0)

\* the provider has echoed an auto-ACK back to wa_admin's webhook, with a valid
\* token and a resolvable tenant, and the handler answered 200
C1_Witness ==
    /\ lastReq.handler = "wa_admin" /\ ~BadToken /\ lastReq.tenant # None
    /\ lastReq.echo /\ lastReq.allFromTenant
    /\ lastResp.status = 200 /\ Len(sent) = 1

\* C2: a multi-candidate operation starts its candidates one after another in
\* list order, returns the response of the first accepted candidate without
\* trying any later one, and tries them all when none is accepted; answered 404,
\* 404, 200 it returns the third candidate's response after exactly three calls.
C2_InOrderStopAtFirstAccepted ==
    /\ (top \in EvoOps) => (\A i \in 1..Len(tried) : tried[i] = i)
    /\ (DoneDirect /\ result.kind = "ret") =>
          /\ firstOk > 0 =>
                /\ Len(tried) = firstOk
                /\ result.resp.tag = "net" /\ result.resp.c = firstOk
                /\ _ok(result.resp.st)
                /\ result.resp = lastNet
          /\ firstOk = 0 => Len(tried) = NumCand(top)
          /\ scen = 3 =>
                /\ ncalls = 3 /\ tried = <<1, 2, 3>>
                /\ result.resp.c = 3 /\ result.resp.st = 200

\* qr_by_param was answered 404, 404, 200 and has returned
C2_Witness ==
    /\ DoneDirect /\ top = "qr_by_param" /\ scen = 3
    /\ result.kind = "ret" /\ result.resp.c = 3

\* C3: an operation all of whose candidates and header variants failed returns
\* the status and body of the last attempt made.
C3_ReturnsLastAttempt ==
    (Done /\ top \in EvoOps /\ result.kind = "ret" /\ firstOk = 0) =>
        result.resp = lastNet

\* C4: no adapter operation raises to its caller; every operation that is over
\* has returned a result.
C4_NeverRaises == Done => result.kind = "ret"

\* C5: EnsureStarted returns a failure only when both its create step and its
\* connect step failed.
C5_FailsOnlyIfBothFail ==
    (DoneEnsure /\ EnsureFailed) => (Failed(detail.create) /\ Failed(detail.connect))

\* C6: once EnsureStarted has tried to register the webhook, the sub-step's
\* status is in the detail, connect is the step attempted last, the operation
\* does not raise, it succeeds whenever connect succeeds, and when it fails it
\* fails as connect_failed with a failed connect.
C6_WebhookFailureNotFatal ==
    (DoneEnsure /\ WebhookPhase) =>
        /\ detail.webhook # 0
        /\ ConnectPhase /\ phases[Len(phases)] \in {"connect_instance", "ch_connect"}
        /\ result.kind = "ret"
        /\ _ok(detail.connect) => result.resp.tag = "ok"
        /\ EnsureFailed => (result.resp.tag = "connect_failed" /\ Failed(detail.connect))

\* EvolutionClient.ensure_started created the instance, failed to register the
\* webhook, connected, and returned success
C6_Witness ==
    /\ DoneEnsure /\ top = "ensure_started" /\ CreatePhase
    /\ Failed(detail.webhook) /\ _ok(detail.connect)
    /\ result.resp.tag = "ok"

\* C7: EnsureStarted called for an instance that already exists issues no create
\* request and does not fail at the create step.
C7_NoCreateWhenPresent ==
    (top \in {"ensure_started", "_ensure_started"} /\ existedAtStart) =>
        /\ ~CreatePhase
        /\ Done => (result.kind = "ret" /\ result.resp.tag # "create_failed")

\* C8: a POST whose token is not exactly the shared secret is rejected as
\* unauthorized (401 by wa_admin, 403 by channels), stores nothing, sends nothing.
C8_BadTokenRejected ==
    (Handling /\ lastReq.method = "POST" /\ BadToken) =>
        /\ lastResp.status \in {401, 403}
        /\ lastResp.saved = 0 /\ lastResp.sends = 0

\* a POST with the token in another case, carrying an inbound message for a
\* resolvable tenant, was rejected
C8_Witness ==
    /\ Handling /\ lastReq.method = "POST" /\ lastReq.token = "Evolution"
    /\ lastReq.routable /\ lastReq.tenant # None
    /\ lastResp.status \in {401, 403}

\* C9 as stated: every GET on the webhook path is answered successfully and has
\* no side effects.
C9_GetAlwaysAnswered ==
    (Handling /\ lastReq.method = "GET") =>
        (lastResp.status = 200 /\ lastResp.saved = 0 /\ lastResp.sends = 0)

\* C9, amended: a GET on the webhook path stores nothing and sends nothing; with
\* the shared secret as its token it is answered 200 as a probe, with any other
\* token it is rejected 403.
C9_GetProbeNeedsToken ==
    (Handling /\ lastReq.method = "GET") =>
        /\ lastResp.saved = 0 /\ lastResp.sends = 0
        /\ ~BadToken => (lastResp.status = 200 /\ lastResp.note = "ping")
        /\ BadToken => lastResp.status = 403

\* a GET carrying the secret and a body with an inbound message was answered as
\* a probe
C9_Witness ==
    /\ lastReq.method = "GET" /\ ~BadToken /\ lastReq.routable
    /\ lastResp.status = 200 /\ lastResp.note = "ping"

\* C10: an authorized POST for which the handler resolves no tenant is answered
\* 200, stores no message and sends no reply.
C10_NoTenantIgnored ==
    (Handling /\ lastReq.method = "POST" /\ ~BadToken /\ lastReq.tenant = None) =>
        (lastResp.status = 200 /\ lastResp.saved = 0 /\ lastResp.sends = 0)

\* ---- admin command interpreter ----
AdminCalled == adminCall.res.kind # "none"
AdminOn == adminCall.cfgBefore.exists /\ adminCall.cfgBefore.super_enabled
KeywordFound == ~adminCall.text.empty /\ adminCall.text.kw = "exact"
DigestOk == verify_password(adminCall.text.pwd, adminCall.cfgBefore.super_password_hash)
FallbackOk == SUPER_PASS # "" /\ adminCall.text.pwd = SUPER_PASS
AdminUntouched == waConfig = adminCall.cfgBefore /\ dataSources = adminCall.dsBefore
Rejected ==
    adminCall.res.reply.kind \in {"formato invalido", "password incorrecto", "numero no habilitado"}
\* a step of the gate fails on any reading: nothing follows the keyword, the
\* password matches neither the digest nor the fallback secret, or the sender is
\* on neither the tenant's allow-list nor the global one while one is non-empty
GateFails ==
    \/ adminCall.text.pwd = ""
    \/ ~DigestOk /\ ~FallbackOk
    \/ LET white == adminCall.cfgBefore.super_allow_list \cup SUPER_NUMS
       IN  white # {} /\ adminCall.sender.local \notin white

\* C11: with admin mode on and the keyword in the text, a failed step returns
\* handled = true with a rejection text and leaves the configuration and the
\* datasources as they were.
C11_FailedStepRejects ==
    (AdminCalled /\ AdminOn /\ KeywordFound /\ GateFails) =>
        /\ adminCall.res.kind = "ret" /\ adminCall.res.handled /\ Rejected
        /\ AdminUntouched

\* the scenario of C12: admin mode on, a digest of secret1, an empty allow-list,
\* the message "#admin <pwd> set agent=reservas"
C12Scenario(pwd) ==
    /\ AdminCalled /\ AdminOn
    /\ adminCall.cfgBefore.super_password_hash = hash_password("secret1")
    /\ adminCall.cfgBefore.super_allow_list = {}
    /\ adminCall.text = AdminMsg("exact", pwd, <<SetReservas>>)

\* C12: "#admin secret1 set agent=reservas" stores agent mode reservas and
\* replies handled with agent_mode among the changed fields; with wrongpass the
\* agent mode stays and the reply is a rejection.
C12_SetAgentScenario ==
    /\ C12Scenario("secret1") =>
          /\ adminCall.res.kind = "ret" /\ adminCall.res.handled
          /\ waConfig.agent_mode = "reservas"
          /\ adminCall.res.reply.kind = "summary"
          /\ InSeq("agent_mode", adminCall.res.reply.changed)
    /\ C12Scenario("wrongpass") =>
          /\ adminCall.res.kind = "ret" /\ adminCall.res.handled /\ Rejected
          /\ waConfig.agent_mode = adminCall.cfgBefore.agent_mode

\* C13: with admin mode off, or without the keyword in the text, the call
\* returns handled = false, no reply, and changes nothing.
C13_NotAdminMessage ==
    (AdminCalled /\ (~AdminOn \/ ~KeywordFound)) =>
        /\ adminCall.res.kind = "ret" /\ ~adminCall.res.handled
        /\ adminCall.res.reply = NoReply
        /\ AdminUntouched

\* C14: a password that the stored digest verifies, or that equals the
\* environment fallback secret, passes the password step.
C14_EitherCheckSuffices ==
    (AdminCalled /\ AdminOn /\ KeywordFound /\ adminCall.text.pwd # ""
       /\ (DigestOk \/ FallbackOk)) =>
        /\ adminCall.res.kind = "ret"
        /\ adminCall.res.reply.kind # "password incorrecto"

\* C15: a sender with a valid password is authorized when the tenant's
\* allow-list is empty, and only if on the list when it is not.
C15_AllowList ==
    (AdminCalled /\ AdminOn /\ KeywordFound /\ adminCall.text.pwd # ""
       /\ PasswordOk(adminCall.cfgBefore, adminCall.text.pwd)) =>
        /\ adminCall.res.kind = "ret"
        /\ adminCall.cfgBefore.super_allow_list = {} => adminCall.res.reply.kind = "summary"
        /\ (adminCall.cfgBefore.super_allow_list # {} /\ adminCall.res.reply.kind = "summary")
              => adminCall.sender.local \in adminCall.cfgBefore.super_allow_list

\* C16: a batch that passed the gate persists the configuration exactly once
\* when a field changed and not at all otherwise, and never before its last
\* command has run.
C16_PersistOnceAtEnd ==
    (AdminCalled /\ AdminOn /\ KeywordFound /\ adminCall.text.pwd # ""
       /\ PasswordOk(adminCall.cfgBefore, adminCall.text.pwd)
       /\ _is_allowed_number(adminCall.sender, adminCall.cfgBefore.super_allow_list)) =>
        /\ adminCall.res.kind = "ret"
        /\ ~adminCall.res.early
        /\ adminCall.res.cfgWrites =
              (IF \E i \in 1..Len(adminCall.text.cmds) :
                     adminCall.text.cmds[i].op = "set"
                     /\ adminCall.text.cmds[i].v \in {"ventas", "reservas", "auto"}
                     /\ adminCall.text.cmds[i].v # adminCall.cfgBefore.agent_mode
               THEN 1 ELSE 0)

\* ---- reply pipeline ----
\* an authorized POST whose tenant the handler resolved
Accepted == Handling /\ lastReq.method = "POST" /\ ~BadToken /\ lastReq.tenant # None

\* C17: a delivery that is accepted and carries a routable inbound message
\* (tenant and conversation resolved, text, not from the tenant side) leads to
\* at least one outbound send attempt.  Both handlers are synchronous and
\* nothing else in the program sends later on behalf of a stored message, so
\* "eventually" is "by the time the handler has answered".
C17_RoutableGetsReply ==
    (Accepted /\ lastReq.routable /\ lastResp.status = 200) => lastResp.sends >= 1

\* C18: when text generation fails, the agent endpoint still answers 200 with a
\* non-empty reply text and no error.
C18_FallbackOnGenerationFailure ==
    agentResp.gen = "fail" =>
        (agentResp.status = 200 /\ agentResp.summary_md # "" /\ agentResp.error = "")

\* C19: for a tenant in auto mode the reply to a routable message is produced
\* by the reservations agent when its text contains "turno" and by the sales
\* agent otherwise.
C19_AutoModeRouting ==
    (Accepted /\ lastReq.routable /\ lastResp.status = 200
       /\ waConfig.agent_mode = "auto") =>
        lastResp.agents = {IF "quiero un turno" \in lastReq.texts THEN "reservas" ELSE "ventas"}

C21_MissingTimestampIsIngestionTime ==
    (Accepted /\ lastResp.status = 200 /\ lastReq.noTs) =>
        /\ lastResp.saved >= lastReq.nRoutable
        /\ \A i \in 1..Len(lastResp.adds) :
              lastResp.adds[i].ts = now /\ lastResp.adds[i].ts >= StartTime

\* channels.wa_webhook has stored a routable message that carried no timestamp
C21_Witness ==
    /\ Accepted /\ lastReq.handler = "channels" /\ lastReq.noTs /\ lastReq.routable
    /\ lastResp.status = 200 /\ lastResp.saved >= 1

\* C22: every inbound row of the store, whichever path wrote it, is returned by
\* the message query for the conversation identifier it is stored under, as an
\* inbound message with the same text.
C22_StoredInboundIsRetrievable ==
    \A i \in 1..Len(store) :
        ~store[i].from_me =>
            LET out == wa_messages(store, store[i].brand_id, store[i].jid, DefaultLimit)
            IN  \E k \in 1..Len(out) :
                    /\ out[k].remoteJid = store[i].jid
                    /\ ~out[k].fromMe /\ out[k].text = store[i].text

\* C29: a webhook delivery that carries candidates flagged as sent by the tenant
\* side, each with a text and a conversation identifier, stores a row with the
\* tenant-side direction flag for each of them.
C29_OutboundPersistedForAudit ==
    (Accepted /\ lastResp.status = 200 /\ lastReq.nOutbound > 0) =>
        Len(SelectSeq(lastResp.adds, LAMBDA r : r.from_me)) >= lastReq.nOutbound

\* ---- board and chat metadata ----
\* the chats of the last board answer, bucket by bucket
ChatsOf(k) == board.columns[k].chats
BoardIsByColumn == board.group \notin {"priority", "interest", "tag"}
\* the conversation has no meta row
NoMeta(jid) == \A i \in 1..Len(metas) : ~(metas[i].brand_id = board.brand_id
                                          /\ _canonical_jid(metas[i].jid) = jid)

MayPrecede(a, b) ==
    \/ a.pinned /\ ~b.pinned
    \/ /\ a.pinned = b.pinned
       /\ \/ a.unread > b.unread
          \/ a.unread = b.unread /\ a.lastMessageAt >= b.lastMessageAt

\* C24: in every bucket of a board answer the chats stand in descending order of
\* (pinned, unread, last-message time); a pinned chat stands before every
\* unpinned one.
C24_PinnedFirst ==
    board.called =>
        \A k \in 1..Len(board.columns) :
            \A i \in 1..Len(ChatsOf(k)), j \in 1..Len(ChatsOf(k)) :
                i < j => MayPrecede(ChatsOf(k)[i], ChatsOf(k)[j])

\* a bucket shows a pinned chat before an unpinned one with a later last message
C24_Witness ==
    /\ board.called
    /\ \E k \in 1..Len(board.columns) :
          \E i \in 1..Len(ChatsOf(k)), j \in 1..Len(ChatsOf(k)) :
              /\ i < j /\ ChatsOf(k)[i].pinned /\ ~ChatsOf(k)[j].pinned
              /\ ChatsOf(k)[i].lastMessageAt < ChatsOf(k)[j].lastMessageAt

\* C25: a chat without meta row is shown with column inbox, priority 0, interest
\* 0, not pinned, not archived; grouped by column, every conversation of the
\* tenant without meta row is in the one bucket whose key is inbox.
C25_NoMetaDefaults ==
    board.called =>
        /\ \A k \in 1..Len(board.columns) : \A i \in 1..Len(ChatsOf(k)) :
              NoMeta(ChatsOf(k)[i].jid) =>
                  /\ ChatsOf(k)[i].column = "inbox"
                  /\ ChatsOf(k)[i].priority = 0 /\ ChatsOf(k)[i].interest = 0
                  /\ ~ChatsOf(k)[i].pinned /\ ~ChatsOf(k)[i].archived
                  /\ BoardIsByColumn => board.columns[k].key = "inbox"
        /\ BoardIsByColumn =>
              /\ Cardinality({k \in 1..Len(board.columns) : board.columns[k].key = "inbox"}) <= 1
              /\ \A n \in 1..Len(store) :
                    (store[n].brand_id = board.brand_id /\ NoMeta(_canonical_jid(store[n].jid))) =>
                        \E k \in 1..Len(board.columns) : \E i \in 1..Len(ChatsOf(k)) :
                            /\ board.columns[k].key = "inbox"
                            /\ ChatsOf(k)[i].jid = _canonical_jid(store[n].jid)

\* grouped by column, two conversations without meta row share the inbox bucket
C25_Witness ==
    /\ board.called /\ board.group = "column" /\ metas = <<>>
    /\ \E k \in 1..Len(board.columns) :
          board.columns[k].key = "inbox" /\ board.columns[k].count >= 2

\* C26: the meta table never holds two rows for the same tenant and conversation.
C26_OneMetaPerConversation ==
    \A i \in 1..Len(metas), j \in 1..Len(metas) :
        (metas[i].brand_id = metas[j].brand_id /\ metas[i].jid = metas[j].jid) => i = j

\* the (conversation, field) pairs a finished request has set
Targets(sl) ==
    IF sl.kind = "bulk"
    THEN {<<_canonical_jid(sl.payload.jids[n]), "column">> : n \in 1..Len(sl.payload.jids)}
    ELSE {<<_canonical_jid(sl.payload.jid), f>> :
             f \in {f \in {"title", "color", "column", "priority", "interest", "pinned",
                           "archived", "tags", "notes"} : sl.payload[f].some}}
\* every meta row of the conversations of the request shows what it has set
Reflected(sl) ==
    LET jids == {t[1] : t \in Targets(sl)}
        rowsOf(j) == {i \in 1..Len(metas) :
                         metas[i].brand_id = sl.payload.brand_id /\ metas[i].jid = j}
    IN  \A j \in jids :
            /\ rowsOf(j) # {}
            /\ \A i \in rowsOf(j) :
                  IF sl.kind = "bulk"
                  THEN metas[i].column = StripLower(OrText(sl.payload.column, "inbox"))
                  ELSE ApplyMetaIn(metas[i], sl.payload) = metas[i]

\* C27: when two requests whose handling overlapped have both finished and have
\* set different fields, or fields of different conversations, the meta rows
\* show the edits of both.
C27_NoLostUpdate ==
    \A s \in Slots, t \in Slots :
        (/\ s # t /\ slots[s].pc = "done" /\ slots[t].pc = "done"
         /\ slots[s].concurrent \/ slots[t].concurrent
         /\ Targets(slots[s]) \cap Targets(slots[t]) = {})
            => Reflected(slots[s]) /\ Reflected(slots[t])

\* the payload can be read: an object whose body and instance, when present,
\* are objects
WellFormedState(js) ==
    /\ js.kind = "obj" /\ js.body # "str"
    /\ js.body = "null" \/ js.instance # "str"

\* C28: connected is true exactly when the state value of a well-formed payload,
\* at top level or under the instance wrapper, is open, connected or online.
C28_ConnectedStates ==
    board.called =>
        (board.connected <=>
            /\ WellFormedState(board.js)
            /\ Lower(StateValue(board.js)) \in {"open", "connected", "online"})


\* C30: within one provider request the header variants are used in the order
\* X-API-KEY, Bearer, apikey, each at most once; the next variant is used only
\* after a 401/403 answer or a transport error, and the first answer with any
\* other status ends the request at once.  Without an API key there is no
\* auth header and the request is made once.
AuthVariants == <<"X-API-KEY", "Bearer", "apikey">>
AuthClass(r) == r.tag = "exception" \/ (r.tag = "net" /\ r.st \in {401, 403})
C30_HeaderVariantsInOrder ==
    [][(Running /\ cur \in EvoOps /\ adapterVars' # adapterVars) =>
          /\ hdr \in 1..Len(_hdr_sets)
          /\ IF apiKeySet THEN _hdr_sets[hdr] = AuthVariants[hdr] ELSE hdr = 1
          /\ hdr' \in {1, hdr + 1}
          /\ hdr' = hdr + 1 => /\ AuthClass(reqLast') /\ reqLast'.h = hdr
                               /\ cand' = cand /\ cur' = cur
          /\ hdr' = 1 => reqLast' = RequestFailed
          /\ top # "ensure_started" =>
                /\ lastNet'.h = hdr /\ lastNet'.c = cand
                /\ hdr' = hdr + 1 <=> (AuthClass(lastNet') /\ hdr < Len(_hdr_sets))
                /\ ncalls < CallCap => ncalls' = ncalls + 1]_vars

\* the first two variants were refused, the third was answered 200 and the
\* request returned after exactly three calls
C30_Witness ==
    /\ apiKeySet /\ top \in EvoOps /\ Done /\ hdr = 1
    /\ ncalls = 3 /\ lastNet.h = 3 /\ lastNet.c = 1 /\ lastNet.st = 200
    /\ result.kind = "ret" /\ result.resp = lastNet

\* C31: a candidate whose response status is neither 404 nor 401/403 is
\* accepted: the operation returns that response and probes no further
\* candidate.
C31_AcceptedUnlessNotFoundOrAuth ==
    [][(Running /\ top \in EvoOps /\ adapterVars' # adapterVars
          /\ lastNet'.tag = "net" /\ lastNet'.st \notin {401, 403, 404}) =>
          (Done' /\ result'.kind = "ret" /\ result'.resp = lastNet')]_vars

\* C32: a delivery whose candidates hold no conversation identifier, as a
\* message list or as a single object, stores nothing and sends nothing.
C32_NoIdentifierDropped ==
    (Accepted /\ lastReq.noJid) => (lastResp.saved = 0 /\ lastResp.sends = 0)

\* C33: the text stored for an inbound candidate is the first non-empty value
\* among the plain-text fields, message.conversation,
\* message.extendedTextMessage.text and the media captions, in this order
\* (lastReq.byPriority holds that value for each candidate of the delivery).
C33_TextPriorityOrder ==
    (Accepted /\ lastResp.status = 200) =>
        \A i \in 1..Len(lastResp.adds) :
            ~lastResp.adds[i].from_me => lastResp.adds[i].text \in lastReq.byPriority

\* ---- admin command batches ----
\* the call passes the gate: admin mode on, keyword, password and sender accepted
PassedGate ==
    /\ AdminCalled /\ AdminOn /\ KeywordFound /\ adminCall.text.pwd # ""
    /\ PasswordOk(adminCall.cfgBefore, adminCall.text.pwd)
    /\ _is_allowed_number(adminCall.sender, adminCall.cfgBefore.super_allow_list)
Unrecognized(c) ==
    c.op \notin {"help", "set", "rulemd", "rulejson", "cfg show", "ds add", "ds del"}
SetsTemp(c) == c.op = "set" /\ c.k = "temp"
BatchHas(P(_)) == \E i \in 1..Len(adminCall.text.cmds) : P(adminCall.text.cmds[i])

\* C34: a batch that passed the gate is executed command by command in the
\* order written: each unrecognized command adds one warning line to the reply
\* and the commands after it are executed all the same (the batch "reporte;
\* set agent=reservas" answers with the warning and stores agent mode reservas).
C34_UnknownCommandDoesNotAbort ==
    PassedGate =>
        /\ adminCall.res.kind = "ret" /\ adminCall.res.reply.kind = "summary"
        /\ Len(SelectSeq(adminCall.res.reply.out, LAMBDA l : l = "no entendido"))
              = Len(SelectSeq(adminCall.text.cmds, Unrecognized))
        /\ (BatchHas(Unrecognized)
              /\ adminCall.text.cmds[Len(adminCall.text.cmds)] = SetReservas) =>
              /\ waConfig.agent_mode = "reservas"
              /\ InSeq("agent_mode", adminCall.res.reply.changed)

\* the temperatures within 0..1 (0.2 is the default of the row)
TempsInBounds == ValidTemps \cup {"0.2"}

SecretItems == {"super_password_hash", "super_allow_list_json", "password"}
Shown(reply) ==
    {reply.out[i] : i \in 1..Len(reply.out)}
        \cup (IF InSeq("cfg", reply.out) THEN CfgShown ELSE {})

BoardRows == board.snapshot[1]
RowsOfChat(jid) ==
    {n \in 1..Len(BoardRows) : /\ BoardRows[n].brand_id = board.brand_id
                               /\ _canonical_jid(BoardRows[n].jid) = jid}
\* the first row in table order among those with the greatest ts
LatestRow(jid) ==
    CHOOSE n \in RowsOfChat(jid) :
        \A m \in RowsOfChat(jid) :
            \/ BoardRows[n].ts > BoardRows[m].ts
            \/ BoardRows[n].ts = BoardRows[m].ts /\ n <= m
Listed(jid) ==
    \E k \in 1..Len(board.columns) : \E i \in 1..Len(ChatsOf(k)) : ChatsOf(k)[i].jid = jid
HiddenArchived(jid) ==
    /\ ~board.show_archived
    /\ MetaFor(SelectSeq(board.snapshot[2], LAMBDA m : m.brand_id = board.brand_id), jid) # 0
    /\ LET M == SelectSeq(board.snapshot[2], LAMBDA m : m.brand_id = board.brand_id)
       IN  M[MetaFor(M, jid)].archived

\* C37: every chat of a board answer carries the snapshot of its conversation:
\* text and time of the row with the greatest ts among the conversation's rows,
\* the first such row in table order when several share it; every conversation
\* with a message that is not hidden as archived is listed.
C37_LatestMessageSnapshot ==
    board.called =>
        /\ \A k \in 1..Len(board.columns) : \A i \in 1..Len(ChatsOf(k)) :
              LET c == ChatsOf(k)[i] IN
              /\ RowsOfChat(c.jid) # {}
              /\ c.lastMessageAt = BoardRows[LatestRow(c.jid)].ts
              /\ c.lastMessageText = BoardRows[LatestRow(c.jid)].text
        /\ \A n \in 1..Len(BoardRows) :
              LET jid == _canonical_jid(BoardRows[n].jid) IN
              (BoardRows[n].brand_id = board.brand_id /\ ~HiddenArchived(jid)) => Listed(jid)

\* the board lists a conversation two of whose rows share the greatest ts, and
\* one whose greatest ts is on a later row than its first
C37_Witness ==
    /\ board.called
    /\ \E k \in 1..Len(board.columns) : \E i \in 1..Len(ChatsOf(k)) :
          \E n, m \in RowsOfChat(ChatsOf(k)[i].jid) :
              /\ n < m /\ BoardRows[n].ts = BoardRows[m].ts
              /\ BoardRows[n].text # BoardRows[m].text
              /\ n = LatestRow(ChatsOf(k)[i].jid)
    /\ \E k \in 1..Len(board.columns) : \E i \in 1..Len(ChatsOf(k)) :
          \E n \in RowsOfChat(ChatsOf(k)[i].jid) :
              n < LatestRow(ChatsOf(k)[i].jid)

\* how often the conversation stands in bucket k, and in the whole answer
TimesIn(jid, k) == Cardinality({i \in 1..Len(ChatsOf(k)) : ChatsOf(k)[i].jid = jid})
RECURSIVE SumTimes(_, _)
SumTimes(jid, k) == IF k = 0 THEN 0 ELSE TimesIn(jid, k) + SumTimes(jid, k - 1)
Times(jid) == SumTimes(jid, Len(board.columns))
\* the tags stored for the conversation in the meta table the answer was built from
StoredTags(jid) ==
    LET M == SelectSeq(board.snapshot[2], LAMBDA m : m.brand_id = board.brand_id)
    IN  IF MetaFor(M, jid) = 0 THEN <<>> ELSE M[MetaFor(M, jid)].tags

\* C38: grouped by tag, a listed conversation without tags stands once, in the
\* untagged bucket, and one with N tags stands once in the bucket of each of its
\* tags and nowhere else; grouped by column, priority or interest every listed
\* conversation stands in exactly one bucket, once.
C38_BucketMembership ==
    board.called =>
        \A k \in 1..Len(board.columns) : \A i \in 1..Len(ChatsOf(k)) :
            LET jid == ChatsOf(k)[i].jid
                tags == StoredTags(jid)
            IN  IF board.group # "tag" THEN Times(jid) = 1
                ELSE IF tags = <<>>
                THEN board.columns[k].key = "_untagged" /\ Times(jid) = 1
                ELSE /\ \E n \in 1..Len(tags) : board.columns[k].key = "tag:" \o tags[n]
                     /\ TimesIn(jid, k) = 1
                     /\ Times(jid) = Cardinality({tags[n] : n \in 1..Len(tags)})
                     /\ \A n \in 1..Len(tags) :
                           \E b \in 1..Len(board.columns) :
                               board.columns[b].key = "tag:" \o tags[n] /\ TimesIn(jid, b) = 1

\* grouped by tag, a conversation with two tags stands in two buckets and one
\* without tags in the untagged bucket
C38_Witness ==
    /\ board.called /\ board.group = "tag"
    /\ \E k \in 1..Len(board.columns) : \E i \in 1..Len(ChatsOf(k)) :
          Len(StoredTags(ChatsOf(k)[i].jid)) = 2 /\ Times(ChatsOf(k)[i].jid) = 2
    /\ \E k \in 1..Len(board.columns) :
          board.columns[k].key = "_untagged" /\ Len(ChatsOf(k)) >= 1

\* ---- history pull ----
\* C39: a history pull stores no message that equals a stored one in tenant,
\* conversation identifier, direction, text and timestamp, so a pull of a
\* history pulled before leaves the message table as it was.
C39_PullIsIdempotent ==
    [][(lastReq'.handler = "sync_pull" /\ store' # store) =>
          \A i \in 1..Len(lastResp'.adds) :
              \A n \in 1..Len(store) : store[n] # lastResp'.adds[i]]_vars

\* ---- canonical conversation identifier ----
\* the key under which wa_board groups a row, and what wa_messages answers for
\* that key
BoardKey(row) == _canonical_jid(row.jid)
QueryOf(row) == wa_messages(store, row.brand_id, BoardKey(row), DefaultLimit)

\* C40: canonicalizing a canonical identifier returns it unchanged: the key
\* under which the webhook of routers/channels.py stored a message is the key
\* under which the board groups it, and the message query for that key
\* returns the message.
C40_CanonicalIsIdempotent ==
    (Accepted /\ lastReq.handler = "channels") =>
        \A i \in 1..Len(lastResp.adds) :
            LET row == lastResp.adds[i]
                out == QueryOf(row)
            IN  /\ BoardKey(row) = row.jid
                /\ \E k \in 1..Len(out) : out[k].text = row.text

====
